---- MODULE Spec2Model ----
(***************************************************************************)
(* Model of gust_g1t (src/gust_g1t.c) and of the DDS format catalog        *)
(* (src/dds.h): the texture layout transforms (rgba_convert, mortonize,    *)
(* flip), the mipmap size calculator, the DDS header writer and the        *)
(* unpack / pack loops of main_utf8.                                       *)
(*                                                                         *)
(* Buffers are sequences of bytes (0..255), indexed from 1; the C offset o *)
(* is position o + 1.  A failed assert() ends the run (pc = "abort").      *)
(***************************************************************************)
EXTENDS Integers, Sequences, FiniteSets, TLC

VARIABLES
    pc,     \* position of the run
    fn,     \* arguments of the function under check (function specifications)
    buf,    \* the byte buffer being transformed
    orig,   \* the buffer as it was given
    mid,    \* the buffer after the first of two transforms
    res,    \* the value a size computation returned
    opt,    \* command line: flip_image
    g1t,    \* the texture entry of the archive unpack reads (decoded fields)
    u,      \* locals of the unpack loop body
    json,   \* the texture's JSON entry (written by unpack, read by pack)
    dds,    \* the DDS file (written by unpack, read by pack)
    pk,     \* locals of the pack loop body
    entry,  \* the texture entry header pack wrote to the archive
    file,   \* the payload bytes pack wrote to the archive
    err,    \* the error reported, "" when none
    r       \* the result of main_utf8

funvars == <<fn, mid, res>>
pipevars == <<opt, g1t, u, json, dds, pk, entry, file, err, r>>
vars == <<pc, buf, orig, fn, mid, res, opt, g1t, u, json, dds, pk, entry, file, err, r>>

-----------------------------------------------------------------------------
(* Bounds of the model *)

MaxDim == 8         \* largest width / height, in elements, given to mortonize
MaxOrder == 3       \* largest Morton order k given to mortonize
MaxGroups == 2      \* largest number of 4-byte groups given to rgba_convert
MaxLines == 4       \* largest number of scan lines given to flip
MaxWidth == 3       \* largest width, in pixels, given to flip
MaxLevel == 3       \* largest mip level given to MIPMAP_SIZE
MaxSide == 9        \* largest width / height, in pixels, given to MIPMAP_SIZE
MaxPayload == 512   \* largest texture payload, in bytes, of the pack and unpack runs

-----------------------------------------------------------------------------
(* enum DDS_FORMAT, src/dds.h *)

DDS_FORMAT_UNKNOWN == 0
DDS_FORMAT_ABGR4 == 1
DDS_FORMAT_ARGB4 == 2
DDS_FORMAT_GRAB4 == 3
DDS_FORMAT_RGBA4 == 4
DDS_FORMAT_ABGR8 == 5
DDS_FORMAT_ARGB8 == 6
DDS_FORMAT_GRAB8 == 7
DDS_FORMAT_RGBA8 == 8
DDS_FORMAT_RXGB8 == 9
DDS_FORMAT_BGR8 == 10
DDS_FORMAT_R8 == 11
DDS_FORMAT_UVER == 12
DDS_FORMAT_DXT1 == 13
DDS_FORMAT_DXT2 == 14
DDS_FORMAT_DXT3 == 15
DDS_FORMAT_DXT4 == 16
DDS_FORMAT_DXT5 == 17
DDS_FORMAT_DX10 == 18
DDS_FORMAT_BC4 == 19
DDS_FORMAT_BC5 == 20
DDS_FORMAT_BC6 == 21
DDS_FORMAT_BC7 == 22
DDS_FORMAT_BC6H == 23
DDS_FORMAT_BC7L == 24
DDS_FORMAT_ATI1 == 25
DDS_FORMAT_ATI2 == 26
DDS_FORMAT_A2XY == 27
DDS_FORMAT_DDS == 28
DDS_FORMAT_NVTT == 29
\* Named by gust_g1t.c (types 0x03 and 0x04) but not an enumerator of
\* src/dds.h: identifiers outside the catalog.
DDS_FORMAT_ARGB16 == 30
DDS_FORMAT_ARGB32 == 31

-----------------------------------------------------------------------------
(* Integer helpers *)

RECURSIVE Pow2(_)
Pow2(n) == IF n <= 0 THEN 1 ELSE 2 * Pow2(n - 1)

\* The C macros min and max (util.h).
min(a, b) == IF a < b THEN a ELSE b
max(a, b) == IF a > b THEN a ELSE b

abs(x) == IF x < 0 THEN -x ELSE x

\* Bitwise & and | of two non-negative integers.
RECURSIVE BitAnd(_, _)
BitAnd(a, b) ==
    IF a = 0 \/ b = 0 THEN 0
    ELSE (a % 2) * (b % 2) + 2 * BitAnd(a \div 2, b \div 2)

BitOr(a, b) == a + b - BitAnd(a, b)

\* (int16_t)log2(v) for v >= 1: the position of the highest set bit.
RECURSIVE FloorLog2(_)
FloorLog2(v) == IF v <= 1 THEN 0 ELSE 1 + FloorLog2(v \div 2)

\* A byte pattern used to fill test buffers: n bytes, all 256-byte pages
\* different from one another.
Pattern(n, a, b) == [p \in 1..n |-> ((p - 1) * a + ((p - 1) \div 256) * 7 + b) % 256]

-----------------------------------------------------------------------------
(* Format catalog, src/dds.h *)

\* dds_bwh: pixel block width/height.
dds_bwh(f) ==
    IF f \in {DDS_FORMAT_DXT1, DDS_FORMAT_DXT2, DDS_FORMAT_DXT3, DDS_FORMAT_DXT4,
              DDS_FORMAT_DXT5, DDS_FORMAT_DX10, DDS_FORMAT_BC4, DDS_FORMAT_BC5,
              DDS_FORMAT_BC6, DDS_FORMAT_BC6H, DDS_FORMAT_BC7, DDS_FORMAT_ATI1,
              DDS_FORMAT_ATI2}
    THEN 4 ELSE 1

\* The formats dds_bpb and dds_bpp have a case for; any other identifier takes
\* the default branch: assert(false).
CatalogFormats ==
    {DDS_FORMAT_BGR8, DDS_FORMAT_ABGR8, DDS_FORMAT_ARGB8, DDS_FORMAT_GRAB8,
     DDS_FORMAT_RGBA8, DDS_FORMAT_RXGB8, DDS_FORMAT_ABGR4, DDS_FORMAT_ARGB4,
     DDS_FORMAT_GRAB4, DDS_FORMAT_RGBA4, DDS_FORMAT_R8, DDS_FORMAT_DXT1,
     DDS_FORMAT_BC4, DDS_FORMAT_ATI1, DDS_FORMAT_DXT2, DDS_FORMAT_DXT3,
     DDS_FORMAT_DXT4, DDS_FORMAT_DXT5, DDS_FORMAT_DX10, DDS_FORMAT_BC5,
     DDS_FORMAT_BC6, DDS_FORMAT_BC6H, DDS_FORMAT_BC7, DDS_FORMAT_ATI2}

\* dds_bpb: bytes per pixel block (0 on the default branch).
dds_bpb(f) ==
    CASE f = DDS_FORMAT_BGR8 -> 3
      [] f \in {DDS_FORMAT_ABGR8, DDS_FORMAT_ARGB8, DDS_FORMAT_GRAB8,
                DDS_FORMAT_RGBA8, DDS_FORMAT_RXGB8} -> 4
      [] f \in {DDS_FORMAT_ABGR4, DDS_FORMAT_ARGB4, DDS_FORMAT_GRAB4,
                DDS_FORMAT_RGBA4} -> 2
      [] f = DDS_FORMAT_R8 -> 1
      [] f \in {DDS_FORMAT_DXT1, DDS_FORMAT_BC4, DDS_FORMAT_ATI1} -> 8
      [] f \in {DDS_FORMAT_DXT2, DDS_FORMAT_DXT3, DDS_FORMAT_DXT4, DDS_FORMAT_DXT5,
                DDS_FORMAT_DX10, DDS_FORMAT_BC5, DDS_FORMAT_BC6, DDS_FORMAT_BC6H,
                DDS_FORMAT_BC7, DDS_FORMAT_ATI2} -> 16
      [] OTHER -> 0

\* The bits of a whole block, not of a pixel.
dds_bpp_block(f) == dds_bpb(f) * 8

\* dds_bpp: bits per individual pixel (0 on the default branch).
dds_bpp(f) ==
    CASE f = DDS_FORMAT_BGR8 -> 24
      [] f \in {DDS_FORMAT_ABGR8, DDS_FORMAT_ARGB8, DDS_FORMAT_GRAB8,
                DDS_FORMAT_RGBA8, DDS_FORMAT_RXGB8} -> 32
      [] f \in {DDS_FORMAT_ABGR4, DDS_FORMAT_ARGB4, DDS_FORMAT_GRAB4,
                DDS_FORMAT_RGBA4} -> 16
      [] f = DDS_FORMAT_R8 -> 8
      [] f \in {DDS_FORMAT_DXT1, DDS_FORMAT_BC4, DDS_FORMAT_ATI1} -> 4
      [] f \in {DDS_FORMAT_DXT2, DDS_FORMAT_DXT3, DDS_FORMAT_DXT4, DDS_FORMAT_DXT5,
                DDS_FORMAT_DX10, DDS_FORMAT_BC5, DDS_FORMAT_BC6, DDS_FORMAT_BC6H,
                DDS_FORMAT_BC7, DDS_FORMAT_ATI2} -> 8
      [] OTHER -> 0

\* MIPMAP_SIZE without the rounding up to whole blocks.
MIPMAP_SIZE_floor(f, l, w, h) ==
    max(1, (w \div Pow2(l)) \div dds_bwh(f)) *
    max(1, (h \div Pow2(l)) \div dds_bwh(f)) * dds_bpb(f)

\* MIPMAP_SIZE(f, l, w, h): the byte size of mip level l.  The C division of
\* unsigned values is \div.
MIPMAP_SIZE(f, l, w, h) ==
    max(1, ((w \div Pow2(l)) + dds_bwh(f) - 1) \div dds_bwh(f)) *
    max(1, ((h \div Pow2(l)) + dds_bwh(f) - 1) \div dds_bwh(f)) * dds_bpb(f)

-----------------------------------------------------------------------------
(* Channel permutation, src/gust_g1t.c *)

\* argb_name[]: the native channel order of each RGBA format, as a sequence of
\* letters.
argb_name(f) ==
    CASE f \in {DDS_FORMAT_ABGR4, DDS_FORMAT_ABGR8} -> <<"A", "B", "G", "R">>
      [] f \in {DDS_FORMAT_ARGB4, DDS_FORMAT_ARGB8} -> <<"A", "R", "G", "B">>
      [] f \in {DDS_FORMAT_GRAB4, DDS_FORMAT_GRAB8} -> <<"G", "R", "A", "B">>
      [] f \in {DDS_FORMAT_RGBA4, DDS_FORMAT_RGBA8} -> <<"R", "G", "B", "A">>
      [] OTHER -> <<>>

ARGB == <<"A", "R", "G", "B">>

\* The four letters in the order of the rgba[] array.
rgba == <<"R", "G", "B", "A">>

\* strchr(str, c) - str: the 0-based index of letter c in an order string.
strchr(str, c) == (CHOOSE i \in 1..Len(str) : str[i] = c) - 1

\* The 32-bit word s of rgba_convert is kept as its four bytes, s[0] the least
\* significant.  getbe16 fills bytes 1 and 0, getbe32 all four.
rgba_load(bits_per_pixel, b, j) ==
    IF bits_per_pixel = 16
    THEN [p \in 0..3 |-> CASE p = 1 -> b[j + 1] [] p = 0 -> b[j + 2] [] OTHER -> 0]
    ELSE [p \in 0..3 |-> b[j + 1 + (3 - p)]]

\* d |= (s & mask[i]) shifted by rot[i], for the four lanes i: mask[i] is
\* ((1 << bits_per_pixel / 4) - 1) << (pos_in * 8) and rot[i] is
\* (pos_out - pos_in) * 8, so lane i moves the low bits_per_pixel / 4 bits of
\* byte pos_in to byte pos_out.
RECURSIVE rgba_lanes(_, _, _, _, _, _)
rgba_lanes(i, bits_per_pixel, in, out, s, d) ==
    IF i > 4 THEN d
    ELSE LET pos_in == 3 - strchr(in, rgba[i])
             pos_out == 3 - strchr(out, rgba[i])
             lane == s[pos_in] % Pow2(bits_per_pixel \div 4)
         IN  rgba_lanes(i + 1, bits_per_pixel, in, out, s,
                        [d EXCEPT ![pos_out] = BitOr(d[pos_out], lane)])

\* rgba_convert(format, in, out, buf, size): the loop takes one group every 4
\* bytes; setbe16 stores bytes 1 and 0 of d, setbe32 all four.
rgba_convert(format, in, out, b, size) ==
    LET bits_per_pixel == dds_bpp(format) IN
    IF ~(bits_per_pixel % 8 = 0)
       \/ ~(format >= DDS_FORMAT_ABGR4 /\ format <= DDS_FORMAT_RGBA8)
    THEN [ok |-> FALSE, buf |-> b]
    ELSE IF in = out THEN [ok |-> TRUE, buf |-> b]
    ELSE LET d(j) == rgba_lanes(1, bits_per_pixel, in, out,
                                rgba_load(bits_per_pixel, b, j), [p \in 0..3 |-> 0])
             ds == [g \in 0..((size - 1) \div 4) |-> d(4 * g)]
         IN  [ok |-> TRUE,
              buf |-> [p \in 1..Len(b) |->
                 LET o == (p - 1) % 4
                     g == (p - 1) \div 4
                 IN  IF p > size THEN b[p]
                     ELSE IF bits_per_pixel = 16
                          THEN (IF o <= 1 THEN ds[g][1 - o] ELSE b[p])
                          ELSE ds[g][3 - o]]]

-----------------------------------------------------------------------------
(* Morton transform, src/gust_g1t.c *)

\* inflate_bits: interleave 0 bits at the odd positions.
inflate_bits(x0) ==
    LET x1 == BitAnd(x0, 65535)
        x2 == BitAnd(BitOr(x1, x1 * 256), 16711935)
        x3 == BitAnd(BitOr(x2, x2 * 16), 252645135)
        x4 == BitAnd(BitOr(x3, x3 * 4), 858993459)
    IN  BitAnd(BitOr(x4, x4 * 2), 1431655765)

\* deflate_bits: drop the odd bits.
deflate_bits(x0) ==
    LET x1 == BitAnd(x0, 1431655765)
        x2 == BitAnd(BitOr(x1, x1 \div 2), 858993459)
        x3 == BitAnd(BitOr(x2, x2 \div 4), 252645135)
        x4 == BitAnd(BitOr(x3, x3 \div 16), 16711935)
    IN  BitAnd(BitOr(x4, x4 \div 256), 65535)

\* xy_to_morton with the two coordinates exchanged.
xy_to_morton_swapped(x, y) == BitOr(inflate_bits(y) * 2, inflate_bits(x))

\* xy_to_morton: the bits of x shifted to the odd positions, those of y at
\* the even positions.
xy_to_morton(x, y) == BitOr(inflate_bits(x) * 2, inflate_bits(y))

\* morton_to_xy with the two coordinates exchanged.
morton_to_xy_swapped(z) == <<deflate_bits(z), deflate_bits(z \div 2)>>

\* morton_to_xy: the pair <<x, y>>.
morton_to_xy(z) == <<deflate_bits(z \div 2), deflate_bits(z)>>

\* The index inside the tile, without the position of the tile.
morton_index_in_tile(i, width, k, reverse) ==
    IF reverse
    THEN morton_to_xy(BitAnd(i, Pow2(k) * Pow2(k) - 1))[2] * width
         + morton_to_xy(BitAnd(i, Pow2(k) * Pow2(k) - 1))[1]
    ELSE BitAnd(xy_to_morton(i % width, i \div width), Pow2(k) * Pow2(k) - 1)

\* The destination index j that mortonize computes for source element i.
morton_index(i, width, k, reverse) ==
    LET tile_width == Pow2(k)
        tile_size == tile_width * tile_width
        mask == tile_size - 1
    IN  IF reverse
        THEN LET xy == morton_to_xy(BitAnd(i, mask))
                 x == xy[1] + ((i \div tile_size) % (width \div tile_width)) * tile_width
                 y == xy[2] + ((i \div tile_size) \div (width \div tile_width)) * tile_width
             IN  y * width + x
        ELSE LET x == i % width
                 y == i \div width
             IN  BitAnd(xy_to_morton(x, y), mask)
                 + ((y \div tile_width) * (width \div tile_width) + (x \div tile_width))
                   * tile_size

\* The assertion on the size of the buffer alone.
morton_asserts_size(format, morton_order, width0, height0, size, wf) ==
    /\ format \in CatalogFormats
    /\ ((dds_bpp(format) * dds_bwh(format) * dds_bwh(format) * wf) \div 8)
           * (width0 \div (dds_bwh(format) * wf)) * (height0 \div dds_bwh(format)) = size

\* The assertions mortonize makes before it touches the buffer.
morton_asserts(format, morton_order, width0, height0, size, wf) ==
    LET bits_per_element == dds_bpp(format) * dds_bwh(format) * dds_bwh(format) * wf
        bytes_per_element == bits_per_element \div 8
        width == width0 \div (dds_bwh(format) * wf)
        height == height0 \div dds_bwh(format)
        k == abs(morton_order)
    IN  /\ format \in CatalogFormats
        /\ bits_per_element % 8 = 0
        /\ bytes_per_element * width * height = size
        /\ width < 65536 /\ height < 65536
        /\ width % Pow2(k) = 0
        /\ height % Pow2(k) = 0
        /\ max(width, height) >= 1 /\ Pow2(k) <= max(width, height)

\* The copy loop of mortonize.  Each pass copies the whole element i of buf
\* to element j of tmp_buf, so tmp_buf is kept as the source element of each
\* of its elements: the last i the loop copied there, or -1 while the element
\* is uninitialised.  dst[i + 1] is the j of pass i, src[j + 1] the source of
\* element j; ok is FALSE when assert(j < num_elements) fails in some pass.
morton_loop(num_elements, width, k, reverse) ==
    LET tmp_buf(dst) ==
            [ok |-> \A i \in 1..num_elements : dst[i] < num_elements,
             src |-> [e \in 1..num_elements |->
                        LET from == {i \in 1..num_elements : dst[i] = e - 1} IN
                        IF from = {} THEN -1
                        ELSE (CHOOSE m \in from : \A x \in from : x <= m) - 1] \o <<>>]
    IN  tmp_buf([i \in 1..num_elements |-> morton_index(i - 1, width, k, reverse)] \o <<>>)

\* mortonize(format, morton_order, width, height, buf, size, wf); b is the
\* size bytes at buf.  ok is FALSE when an assertion fails, and buf is then
\* as it was; an uninitialised byte of tmp_buf is -1.
mortonize(format, morton_order, width0, height0, b, size, wf) ==
    IF ~morton_asserts(format, morton_order, width0, height0, size, wf)
    THEN [ok |-> FALSE, buf |-> b]
    ELSE LET bytes_per_element ==
                 (dds_bpp(format) * dds_bwh(format) * dds_bwh(format) * wf) \div 8
             width == width0 \div (dds_bwh(format) * wf)
             k == abs(morton_order)
             num_elements == size \div bytes_per_element
             memcpy(l) ==
                 IF ~l.ok THEN [ok |-> FALSE, buf |-> b]
                 ELSE [ok |-> TRUE,
                       buf |-> [p \in 1..size |->
                          LET e == (p - 1) \div bytes_per_element IN
                          IF l.src[e + 1] < 0 THEN -1
                          ELSE b[l.src[e + 1] * bytes_per_element
                                 + ((p - 1) % bytes_per_element) + 1]]]
         IN  memcpy(morton_loop(num_elements, width, k, morton_order /= k))

-----------------------------------------------------------------------------
(* Row flip, src/gust_g1t.c *)

\* flip reversing the bytes of the buffer instead of its lines.
flip_bytes(bits_per_pixel, b, size, width) ==
    LET line_size == width * (bits_per_pixel \div 8) IN
    IF ~(bits_per_pixel % 8 = 0) \/ line_size = 0 \/ ~(size % line_size = 0)
    THEN [ok |-> FALSE, buf |-> b]
    ELSE [ok |-> TRUE, buf |-> [p \in 1..size |-> b[size - p + 1]]]

\* flip(bits_per_pixel, buf, size, width); b is the size bytes at buf, of at
\* least one line.  ok is FALSE when an assertion fails.
flip(bits_per_pixel, b, size, width) ==
    LET line_size == width * (bits_per_pixel \div 8) IN
    IF ~(bits_per_pixel % 8 = 0) \/ line_size = 0 \/ ~(size % line_size = 0)
    THEN [ok |-> FALSE, buf |-> b]
    ELSE LET max_line == (size \div line_size) - 1 IN
         [ok |-> TRUE,
          buf |-> [p \in 1..size |->
             LET i == (p - 1) \div line_size
             IN  b[(max_line - i) * line_size + ((p - 1) % line_size) + 1]]]

-----------------------------------------------------------------------------
(* Platforms and flags, src/gust_g1t.c *)

SONY_PS2 == 0
SONY_PS3 == 1
MICROSOFT_X360 == 2
NINTENDO_WII == 3
NINTENDO_DS == 4
NINTENDO_3DS == 5
SONY_PSV == 6
GOOGLE_ANDROID == 7
APPLE_IOS == 8
NINTENDO_WIIU == 9
MICROSOFT_WINDOWS == 10
SONY_PS4 == 11
MICROSOFT_XONE == 12
NINTENDO_SWITCH == 16

Platforms ==
    {SONY_PS2, SONY_PS3, MICROSOFT_X360, NINTENDO_WII, NINTENDO_DS, NINTENDO_3DS,
     SONY_PSV, GOOGLE_ANDROID, APPLE_IOS, NINTENDO_WIIU, MICROSOFT_WINDOWS,
     SONY_PS4, MICROSOFT_XONE, NINTENDO_SWITCH}

\* Pixel format flags and header flags, src/dds.h.
DDS_ALPHAPIXELS == 1
DDS_FOURCC == 4
DDS_RGB == 64
DDS_RGBA == 65
DDS_HEADER_FLAGS_TEXTURE == 4103
DDS_HEADER_FLAGS_MIPMAP == 131072
DDS_HEADER_FLAGS_LINEARSIZE == 524288
DDS_SURFACE_FLAGS_TEXTURE == 4096
DDS_SURFACE_FLAGS_MIPMAP == 4194312
DDS_SURFACE_FLAGS_CUBEMAP == 8
DDS_CUBEMAP_ALLFACES == 65024
D3D10_RESOURCE_DIMENSION_TEXTURE2D == 3
D3D11_RESOURCE_MISC_TEXTURECUBE == 4

\* The magic of a DDS file, as the characters its four bytes spell.
DDS_MAGIC == "DDS "

\* sizeof(DDS_HEADER_DXT10).
DDS_DXT10_BYTES == 20

\* The low frame nibble alone.
GET_NB_FRAMES_lo(val) == val.lo

\* GET_NB_FRAMES over the frame-count bits of flags[1]: the word is kept as
\* its two frame nibbles, lo (bits 28..31) and hi (bits 16..19).
GET_NB_FRAMES(val) == val.lo + 16 * val.hi

\* The frame-count bits pack stores: (n & 0x0f) << 28 | (n & 0xf0) << 12.
NbFramesBits(n) == [lo |-> n % 16, hi |-> (n \div 16) % 16]

\* flags[1] & G1T_FLAG_TEXTURE_ARRAY: the mask 0xF00F0000 covers exactly the
\* two frame nibbles.
TextureArray(val) == val.lo /= 0 \/ val.hi /= 0

-----------------------------------------------------------------------------
(* The texture types, src/gust_g1t.c *)

\* The default ARGB format of a platform (same switch on both paths).
default_texture_format(platform) ==
    CASE platform \in {NINTENDO_DS, NINTENDO_3DS, SONY_PS4} -> DDS_FORMAT_GRAB8
      [] platform \in {SONY_PSV, NINTENDO_SWITCH} -> DDS_FORMAT_ARGB8
      [] OTHER -> DDS_FORMAT_RGBA8

\* The switch on tex->type of the unpack path.
unpack_type(type, def) ==
    CASE type \in {0, 1, 2, 33} -> [known |-> TRUE, format |-> def, swizzled |-> FALSE]
      [] type = 3 -> [known |-> TRUE, format |-> DDS_FORMAT_ARGB16, swizzled |-> FALSE]
      [] type = 4 -> [known |-> TRUE, format |-> DDS_FORMAT_ARGB32, swizzled |-> FALSE]
      [] type \in {6, 89} -> [known |-> TRUE, format |-> DDS_FORMAT_DXT1, swizzled |-> FALSE]
      [] type \in {8, 91} -> [known |-> TRUE, format |-> DDS_FORMAT_DXT5, swizzled |-> FALSE]
      [] type = 9 -> [known |-> TRUE, format |-> def, swizzled |-> TRUE]
      [] type \in {16, 96} -> [known |-> TRUE, format |-> DDS_FORMAT_DXT1, swizzled |-> TRUE]
      [] type \in {18, 98} -> [known |-> TRUE, format |-> DDS_FORMAT_DXT5, swizzled |-> TRUE]
      [] type \in {60, 61} -> [known |-> TRUE, format |-> DDS_FORMAT_ARGB4, swizzled |-> FALSE]
      [] type = 69 -> [known |-> TRUE, format |-> DDS_FORMAT_BGR8, swizzled |-> TRUE]
      [] type = 92 -> [known |-> TRUE, format |-> DDS_FORMAT_BC4, swizzled |-> FALSE]
      [] type = 94 -> [known |-> TRUE, format |-> DDS_FORMAT_BC6H, swizzled |-> FALSE]
      [] type \in {95, 114} -> [known |-> TRUE, format |-> DDS_FORMAT_BC7, swizzled |-> FALSE]
      [] OTHER -> [known |-> FALSE, format |-> def, swizzled |-> FALSE]

\* The switch on tex.type of the pack path: the unpack cases and 0x07, 0x11,
\* 0x5A, 0x61 (DXT3).
pack_type(type, def) ==
    CASE type \in {7, 90} -> [known |-> TRUE, format |-> DDS_FORMAT_DXT3, swizzled |-> FALSE]
      [] type \in {17, 97} -> [known |-> TRUE, format |-> DDS_FORMAT_DXT3, swizzled |-> TRUE]
      [] OTHER -> unpack_type(type, def)

\* flip is applied when -f is given or for the 3DS types 0x09 and 0x45.
flip_wanted(flip_image, platform, type) ==
    flip_image \/ (platform = NINTENDO_3DS /\ type \in {9, 69})

-----------------------------------------------------------------------------
(* DDS header synthesis, src/dds.h and src/gust_g1t.c *)

\* get_fourCC: the four characters, "" for the value 0 of the default branch.
get_fourCC(format) ==
    CASE format = DDS_FORMAT_DXT1 -> "DXT1"
      [] format = DDS_FORMAT_DXT2 -> "DXT2"
      [] format = DDS_FORMAT_DXT3 -> "DXT3"
      [] format = DDS_FORMAT_DXT4 -> "DXT4"
      [] format = DDS_FORMAT_DXT5 -> "DXT5"
      [] format \in {DDS_FORMAT_ATI1, DDS_FORMAT_BC4} -> "ATI1"
      [] format = DDS_FORMAT_ATI2 -> "ATI2"
      [] format = DDS_FORMAT_A2XY -> "A2XY"
      [] format \in {DDS_FORMAT_BC7, DDS_FORMAT_DX10} -> "DX10"
      [] format = DDS_FORMAT_BC7L -> "BC7L"
      [] format = DDS_FORMAT_NVTT -> "NVTT"
      [] format = DDS_FORMAT_DDS -> "DDS "
      [] format = DDS_FORMAT_RXGB8 -> "RXGB"
      [] format = DDS_FORMAT_UVER -> "UVER"
      [] format = DDS_FORMAT_BC6H -> "BC6H"
      [] OTHER -> ""

\* A pixel format with nothing set.  The bit masks are kept as 8 hexadecimal
\* digits; normal is the DDS_NORMAL bit (0x80000000) of the flags.
NoPixelFormat ==
    [size |-> 32, flags |-> 0, normal |-> FALSE, fourCC |-> "", RGBBitCount |-> 0,
     RBitMask |-> "00000000", GBitMask |-> "00000000", BBitMask |-> "00000000",
     ABitMask |-> "00000000"]

\* The formats the DXGI switch of write_dds_header has a case for.
DxgiFormats ==
    {DDS_FORMAT_BC7, DDS_FORMAT_DXT1, DDS_FORMAT_DXT3, DDS_FORMAT_DXT5,
     DDS_FORMAT_DX10, DDS_FORMAT_BC6H, DDS_FORMAT_RGBA8}

\* The dxgiFormat of the DX10 header, by name; "UNKNOWN" on the default branch.
dxgi_format(format, srgb) ==
    CASE format \in {DDS_FORMAT_BC7, DDS_FORMAT_DX10} ->
             IF srgb THEN "BC7_UNORM_SRGB" ELSE "BC7_UNORM"
      [] format = DDS_FORMAT_DXT1 -> IF srgb THEN "BC1_UNORM_SRGB" ELSE "BC1_UNORM"
      [] format = DDS_FORMAT_DXT3 -> IF srgb THEN "BC2_UNORM_SRGB" ELSE "BC2_UNORM"
      [] format = DDS_FORMAT_DXT5 -> IF srgb THEN "BC3_UNORM_SRGB" ELSE "BC3_UNORM"
      [] format = DDS_FORMAT_BC6H -> IF srgb THEN "BC6H_SF16" ELSE "BC6H_UF16"
      [] format = DDS_FORMAT_RGBA8 ->
             IF srgb THEN "B8G8R8A8_UNORM_SRGB" ELSE "B8G8R8A8_UNORM"
      [] OTHER -> "UNKNOWN"

\* The pixel format write_dds_header fills in; ok is FALSE on the two
\* "Unsupported bits-per-pixel" returns.
dds_pixelformat(format, x10) ==
    LET bpp == dds_bpp(format) IN
    IF format = DDS_FORMAT_BGR8
    THEN [ok |-> bpp = 24,
          pf |-> [NoPixelFormat EXCEPT !.flags = DDS_RGB, !.RGBBitCount = bpp,
                     !.RBitMask = "00ff0000", !.GBitMask = "0000ff00",
                     !.BBitMask = "000000ff"]]
    ELSE IF format >= DDS_FORMAT_ABGR4 /\ format <= DDS_FORMAT_RGBA8
    THEN LET base == [NoPixelFormat EXCEPT
                         !.flags = IF x10 THEN BitOr(DDS_FOURCC, DDS_ALPHAPIXELS)
                                   ELSE DDS_RGBA,
                         !.fourCC = IF x10 THEN get_fourCC(DDS_FORMAT_DX10) ELSE "",
                         !.RGBBitCount = bpp]
         IN  CASE bpp = 16 ->
                    [ok |-> TRUE,
                     pf |-> [base EXCEPT !.RBitMask = "00000f00", !.GBitMask = "000000f0",
                                !.BBitMask = "0000000f", !.ABitMask = "0000f000"]]
               [] bpp = 32 ->
                    [ok |-> TRUE,
                     pf |-> [base EXCEPT !.RBitMask = "00ff0000", !.GBitMask = "0000ff00",
                                !.BBitMask = "000000ff", !.ABitMask = "ff000000"]]
               [] bpp = 64 ->
                    [ok |-> TRUE,
                     pf |-> [base EXCEPT !.RBitMask = "0000ffff", !.GBitMask = "ffff0000",
                                !.BBitMask = "0000ffff", !.ABitMask = "ffff0000"]]
               [] bpp = 128 ->
                    [ok |-> TRUE,
                     pf |-> [base EXCEPT !.RBitMask = "ffffffff", !.GBitMask = "ffffffff",
                                !.BBitMask = "ffffffff", !.ABitMask = "ffffffff"]]
               [] OTHER -> [ok |-> FALSE, pf |-> base]
    ELSE IF format = DDS_FORMAT_R8
    THEN [ok |-> TRUE,
          pf |-> [NoPixelFormat EXCEPT !.flags = DDS_RGBA, !.RGBBitCount = bpp,
                     !.RBitMask = "000000ff"]]
    ELSE IF format = DDS_FORMAT_ARGB32
    THEN [ok |-> TRUE, pf |-> [NoPixelFormat EXCEPT !.flags = DDS_FOURCC, !.fourCC = "0x74"]]
    ELSE IF format = DDS_FORMAT_ARGB16
    THEN [ok |-> TRUE, pf |-> [NoPixelFormat EXCEPT !.flags = DDS_FOURCC, !.fourCC = "0x71"]]
    ELSE [ok |-> TRUE,
          pf |-> [NoPixelFormat EXCEPT !.flags = DDS_FOURCC,
                     !.fourCC = get_fourCC(IF x10 THEN DDS_FORMAT_DX10 ELSE format)]]

\* No DX10 header.
NoDx10 ==
    [present |-> FALSE, dxgiFormat |-> "UNKNOWN", resourceDimension |-> 0,
     miscFlag |-> 0, arraySize |-> 0]

\* use_dx10 for BC7 alone.
use_dx10_bc7(format, flags) == format = DDS_FORMAT_BC7

\* bool use_dx10 of write_dds_header.
use_dx10(format, flags) ==
    format = DDS_FORMAT_BC7 \/ format = DDS_FORMAT_DX10 \/ TextureArray(flags.frames)

\* write_dds_header(fd, format, width, height, mipmaps, flags).  flags is the
\* record [srgb, normal, frames, cube] of the bits of flags[0] and flags[1] it
\* reads.  Returns the value r, the header written (wrote says whether the
\* DDS_HEADER reached the file), the DX10 header written, and whether an
\* assertion failed (the format catalog's, or the DXGI switch's default).
write_dds_header(format, width, height, mipmaps, flags) ==
    LET p == dds_pixelformat(format, use_dx10(format, flags))
        header ==
            [size |-> 124,
             flags |-> BitOr(BitOr(DDS_HEADER_FLAGS_TEXTURE, DDS_HEADER_FLAGS_LINEARSIZE),
                             IF mipmaps /= 0 THEN DDS_HEADER_FLAGS_MIPMAP ELSE 0),
             height |-> height,
             width |-> width,
             pitchOrLinearSize |->
                 IF dds_bpb(format) >= 8
                 THEN ((width + 3) \div 4) * ((height + 3) \div 4) * dds_bpb(format)
                 ELSE width * height * dds_bpb(format),
             mipMapCount |-> IF mipmaps /= 0 THEN mipmaps ELSE 0,
             ddspf |-> [p.pf EXCEPT !.normal = flags.normal],
             caps |-> BitOr(BitOr(DDS_SURFACE_FLAGS_TEXTURE,
                                  IF mipmaps /= 0 THEN DDS_SURFACE_FLAGS_MIPMAP ELSE 0),
                            IF flags.cube THEN DDS_SURFACE_FLAGS_CUBEMAP ELSE 0),
             caps2 |-> IF flags.cube THEN DDS_CUBEMAP_ALLFACES ELSE 0]
        hdx10 ==
            [present |-> TRUE,
             dxgiFormat |-> dxgi_format(format, flags.srgb),
             resourceDimension |-> D3D10_RESOURCE_DIMENSION_TEXTURE2D,
             miscFlag |-> IF flags.cube THEN D3D11_RESOURCE_MISC_TEXTURECUBE ELSE 0,
             arraySize |-> IF GET_NB_FRAMES(flags.frames) = 0 THEN 1
                           ELSE GET_NB_FRAMES(flags.frames)]
    IN  IF width = 0 \/ height = 0
        THEN [r |-> 0, assert |-> FALSE, wrote |-> FALSE, header |-> header, dx10 |-> NoDx10]
        ELSE IF format \notin CatalogFormats
        THEN [r |-> 0, assert |-> TRUE, wrote |-> FALSE, header |-> header, dx10 |-> NoDx10]
        ELSE IF ~p.ok
        THEN [r |-> 0, assert |-> FALSE, wrote |-> FALSE, header |-> header, dx10 |-> NoDx10]
        ELSE IF ~use_dx10(format, flags)
        THEN [r |-> 1, assert |-> FALSE, wrote |-> TRUE, header |-> header, dx10 |-> NoDx10]
        ELSE IF format \notin DxgiFormats
        THEN [r |-> 1, assert |-> TRUE, wrote |-> TRUE, header |-> header, dx10 |-> NoDx10]
        ELSE [r |-> 1, assert |-> FALSE, wrote |-> TRUE, header |-> header, dx10 |-> hdx10]

-----------------------------------------------------------------------------
(* Steps shared by the pack and unpack loops of main_utf8, src/gust_g1t.c *)

\* The n bytes of b that start at offset off.
Slice(b, off, n) == [p \in 1..n |-> b[off + p]]

\* b with the bytes at offset off replaced by new.
Splice(b, off, new) ==
    [p \in 1..Len(b) |-> IF p > off /\ p <= off + Len(new) THEN new[p - off] ELSE b[p]]

\* rgba_convert steps through buf four bytes at a time: when size is not a
\* multiple of 4 its last pass reads and writes bytes after the end of the
\* buffer (one byte for the 16-bit formats when size % 4 = 1).
rgba_overrun(format, in, out, size) ==
    /\ in /= out
    /\ IF dds_bpp(format) = 16 THEN size % 4 = 1 ELSE size % 4 /= 0

\* The outcomes of rgba_convert(format, in, out, buf, size) on the bytes b of
\* the file buffer.  What follows the buffer is not defined: the bytes read
\* there are all 0 or all 255, or the access ends the process.
rgba_outcomes(format, in, out, b, size) ==
    {LET c == rgba_convert(format, in, out, b \o <<pad, pad, pad>>, size)
     IN  [ok |-> c.ok, buf |-> SubSeq(c.buf, 1, Len(b))] :
        pad \in IF rgba_overrun(format, in, out, size) THEN {0, 255} ELSE {0}}
    \cup (IF rgba_overrun(format, in, out, size) THEN {[ok |-> FALSE, buf |-> b]} ELSE {})

\* The loop over the levels with the frame count left out.
RECURSIVE mipmaps_size_one_frame(_, _, _, _, _, _)
mipmaps_size_one_frame(format, j, mipmaps, width, height, n) ==
    IF j >= mipmaps THEN 0
    ELSE MIPMAP_SIZE(format, j, width, height)
         + mipmaps_size_one_frame(format, j + 1, mipmaps, width, height, n)

\* The for loop over the levels j..mipmaps-1 that adds n * MIPMAP_SIZE to
\* expected_texture_size (n is nb_frames on the unpack path, 1 on the pack
\* path).
RECURSIVE mipmaps_size(_, _, _, _, _, _)
mipmaps_size(format, j, mipmaps, width, height, n) ==
    IF j >= mipmaps THEN 0
    ELSE n * MIPMAP_SIZE(format, j, width, height)
         + mipmaps_size(format, j + 1, mipmaps, width, height, n)

\* The Morton order and width factor chosen for a platform.  dir is +1 on the
\* pack path and -1 on the unpack path.  On the unpack path the WiiU case ends
\* with a break, so the order stays 0; on the pack path it falls through to
\* the default case.  log2(0) converted to int16_t has no defined value: the
\* result is then undef.
morton_params(dir, platform, format, width, height) ==
    LET wf == IF platform \in {SONY_PS4, NINTENDO_3DS, NINTENDO_WIIU} THEN 2 ELSE 1
        wd == IF platform = NINTENDO_WIIU THEN (IF dir > 0 THEN 2 ELSE 1) ELSE 1
        m == min((width \div dds_bwh(format)) \div wd, height \div dds_bwh(format))
    IN  IF platform \in {SONY_PS4, NINTENDO_3DS}
        THEN [undef |-> FALSE, mo |-> dir * 3, wf |-> wf]
        ELSE IF platform = NINTENDO_WIIU /\ dir < 0
        THEN [undef |-> FALSE, mo |-> 0, wf |-> wf]
        ELSE [undef |-> m = 0, mo |-> dir * FloorLog2(m), wf |-> wf]

\* The order lowered by two.
next_order_by_two(mo) == IF mo > 0 THEN max(mo - 2, 0) ELSE min(mo + 2, 0)

\* mo += (mo > 0) ? -1 : +1.
next_order(mo) == IF mo > 0 THEN mo - 1 ELSE mo + 1

\* The loop over the mipmap levels that calls mortonize, from level j - 1 on.
RECURSIVE morton_levels(_, _, _, _, _, _, _, _, _)
morton_levels(format, mo, width, height, b, mipmaps, wf, j, offset) ==
    IF ~(j <= mipmaps /\ mo /= 0) THEN [ok |-> TRUE, buf |-> b]
    ELSE LET mipmap_size == MIPMAP_SIZE(format, j - 1, width, height) IN
         IF format \notin CatalogFormats \/ offset + mipmap_size > Len(b)
         THEN [ok |-> FALSE, buf |-> b]
         ELSE LET m == mortonize(format, mo, width \div Pow2(j - 1), height \div Pow2(j - 1),
                                 Slice(b, offset, mipmap_size), mipmap_size, wf)
              IN  IF ~m.ok THEN [ok |-> FALSE, buf |-> b]
                  ELSE morton_levels(format, next_order(mo), width, height,
                                     Splice(b, offset, m.buf), mipmaps, wf, j + 1,
                                     offset + mipmap_size)

\* The frame loop of the unpack path: for each frame f, its levels 0, 1, ...
\* are fetched from the level-major archive payload.
RECURSIVE unpack_levels(_, _, _, _, _, _, _, _, _)
unpack_levels(b, format, width, height, mipmaps, nb_frames, f, l, offset) ==
    IF l >= mipmaps THEN <<>>
    ELSE LET mipmap_size == MIPMAP_SIZE(format, l, width, height) IN
         Slice(b, offset + f * mipmap_size, mipmap_size)
         \o unpack_levels(b, format, width, height, mipmaps, nb_frames, f, l + 1,
                          offset + f * mipmap_size + (nb_frames - f) * mipmap_size)

RECURSIVE unpack_frames(_, _, _, _, _, _, _)
unpack_frames(b, format, width, height, mipmaps, nb_frames, f) ==
    IF f >= nb_frames THEN <<>>
    ELSE unpack_levels(b, format, width, height, mipmaps, nb_frames, f, 0, 0)
         \o unpack_frames(b, format, width, height, mipmaps, nb_frames, f + 1)

\* The frame loop of the pack path: for each level l, that level of every
\* frame is fetched from the frame-major DDS payload.
\* The frames taken one level size apart.
RECURSIVE pack_level_by_level(_, _, _, _, _, _)
pack_level_by_level(b, f_size, nb_frames, f, offset, mipmap_size) ==
    IF f >= nb_frames THEN <<>>
    ELSE Slice(b, f * mipmap_size + offset, mipmap_size)
         \o pack_level_by_level(b, f_size, nb_frames, f + 1, offset, mipmap_size)

RECURSIVE pack_level(_, _, _, _, _, _)
pack_level(b, f_size, nb_frames, f, offset, mipmap_size) ==
    IF f >= nb_frames THEN <<>>
    ELSE Slice(b, f * f_size + offset, mipmap_size)
         \o pack_level(b, f_size, nb_frames, f + 1, offset, mipmap_size)

RECURSIVE pack_frames(_, _, _, _, _, _, _, _, _)
pack_frames(b, format, width, height, mipmaps, nb_frames, f_size, l, offset) ==
    IF l >= mipmaps THEN <<>>
    ELSE LET mipmap_size == MIPMAP_SIZE(format, l, width, height) IN
         pack_level(b, f_size, nb_frames, 0, offset, mipmap_size)
         \o pack_frames(b, format, width, height, mipmaps, nb_frames, f_size, l + 1,
                        offset + mipmap_size)

-----------------------------------------------------------------------------
(* State of the pack and unpack loops *)

NoHeader ==
    [size |-> 0, flags |-> 0, height |-> 0, width |-> 0, pitchOrLinearSize |-> 0,
     mipMapCount |-> 0, ddspf |-> NoPixelFormat, caps |-> 0, caps2 |-> 0]

\* No DDS file.
NoDDS ==
    [exists |-> FALSE, magic |-> "", header |-> NoHeader, dx10 |-> NoDx10,
     payload |-> <<>>]

NoFrames == [lo |-> 0, hi |-> 0]

NoJson ==
    [exists |-> FALSE, type |-> 0, mipmaps |-> 0, nb_frames |-> 0,
     flags |-> [ext |-> FALSE, srgb |-> FALSE, normal |-> FALSE]]

NoG1T ==
    [platform |-> 0, type |-> 0, mipmaps |-> 0, dx |-> 0, dy |-> 0, global |-> FALSE,
     ext |-> FALSE, srgb |-> FALSE, normal |-> FALSE, data_size |-> 0,
     frames |-> NoFrames, xw |-> 0, xh |-> 0]

NoLocals ==
    [nb_frames |-> 0, width |-> 0, height |-> 0, data_size |-> 0, mipmaps |-> 0,
     frames |-> NoFrames, texture_format |-> 0, swizzled |-> FALSE,
     expected_texture_size |-> 0, texture_size |-> 0, cube |-> FALSE,
     warning |-> FALSE]

NoEntry ==
    [exists |-> FALSE, mipmaps |-> 0, type |-> 0, dx |-> 0, dy |-> 0, ext |-> FALSE,
     data_size |-> 0, frames |-> NoFrames, xw |-> 0, xh |-> 0]

\* The pack and unpack loops are not running.
PipeIdle ==
    /\ opt = [flip_image |-> FALSE, list_only |-> FALSE]
    /\ g1t = NoG1T
    /\ u = NoLocals
    /\ json = NoJson
    /\ dds = NoDDS
    /\ pk = NoLocals
    /\ entry = NoEntry
    /\ file = <<>>
    /\ err = ""
    /\ r = -1

\* break out of the unpack loop, or goto out: main_utf8 returns r = -1.
Fail(e) ==
    /\ pc' = "failed"
    /\ err' = e
    /\ r' = -1

\* A failed assert() ends the process.
Abort(e) ==
    /\ pc' = "abort"
    /\ err' = e
    /\ UNCHANGED r

-----------------------------------------------------------------------------
(* The unpack loop body of main_utf8, for one texture entry *)

\* The bits of flags[0] and flags[1] that write_dds_header reads.
header_flags(t, locals) ==
    [srgb |-> t.srgb, normal |-> t.normal, frames |-> locals.frames, cube |-> locals.cube]

\* width and height of an entry: 1 << dx and 1 << dy, replaced by the words at
\* 0x0c and 0x10 of the extended data when it is long enough to hold them.
unpack_dims(e) ==
    LET data_size == IF e.ext THEN e.data_size ELSE 0 IN
    [width |-> IF data_size >= 16 THEN e.xw ELSE Pow2(e.dx),
     height |-> IF data_size >= 20 THEN e.xh ELSE Pow2(e.dy)]

\* Entry header, extra data, JSON entry and the switch on tex->type.
UnpackParse ==
    /\ pc = "u_parse"
    /\ LET data_size == IF g1t.ext THEN g1t.data_size ELSE 0
           frames == IF data_size >= 12 THEN g1t.frames ELSE NoFrames
           nb_frames == IF GET_NB_FRAMES(frames) = 0 THEN 1 ELSE GET_NB_FRAMES(frames)
           width == unpack_dims(g1t).width
           height == unpack_dims(g1t).height
           t == unpack_type(g1t.type, default_texture_format(g1t.platform))
       IN  IF g1t.mipmaps = 0 THEN Fail("mipmaps") /\ UNCHANGED <<u, json>>
           ELSE IF g1t.global THEN Fail("global flags") /\ UNCHANGED <<u, json>>
           ELSE IF data_size \notin {0, 12, 16, 20}
           THEN Fail("extra flags size") /\ UNCHANGED <<u, json>>
           ELSE /\ json' = [exists |-> FALSE, type |-> g1t.type,
                            mipmaps |-> IF g1t.mipmaps /= 1 THEN g1t.mipmaps ELSE 0,
                            nb_frames |-> IF nb_frames > 1 THEN nb_frames ELSE 0,
                            flags |-> NoJson.flags]
                /\ u' = [u EXCEPT !.nb_frames = nb_frames, !.width = width,
                            !.height = height, !.data_size = data_size,
                            !.mipmaps = g1t.mipmaps, !.frames = frames,
                            !.texture_format = t.format, !.swizzled = t.swizzled]
                /\ IF t.known THEN pc' = "u_size" /\ UNCHANGED <<err, r>>
                   ELSE Fail("unsupported type")
    /\ UNCHANGED <<buf, orig, opt, g1t, dds, pk, entry, file>>
    /\ UNCHANGED funvars

\* expected_texture_size and texture_size.
UnpackExpectedSize ==
    /\ pc = "u_size"
    /\ IF u.texture_format \notin CatalogFormats
       THEN Abort("format") /\ UNCHANGED u
       ELSE IF g1t.ext /\ Len(buf) = 0
       THEN Abort("extra data") /\ UNCHANGED u
       ELSE IF g1t.ext /\ u.data_size \notin {12, 16, 20}
       THEN Fail("extra data") /\ UNCHANGED u
       ELSE /\ u' = [u EXCEPT
                       !.expected_texture_size =
                           mipmaps_size(u.texture_format, 0, u.mipmaps, u.width,
                                        u.height, u.nb_frames),
                       !.texture_size = Len(buf)]
            /\ pc' = "u_reconcile"
            /\ UNCHANGED <<err, r>>
    /\ UNCHANGED <<buf, orig, opt, g1t, json, dds, pk, entry, file>>
    /\ UNCHANGED funvars

\* The first test of the comparison, with a texture of any size accepted.
unpack_too_small_never(texture_size, expected_texture_size) ==
    texture_size < 0

\* A texture that is smaller than expected is reported as an error.
unpack_too_small(texture_size, expected_texture_size) ==
    texture_size < expected_texture_size

\* The last test of the comparison, with every larger size but the 6-fold one
\* reported as an error.
unpack_size_error(texture_size, expected_texture_size) ==
    /\ texture_size > expected_texture_size
    /\ ~(texture_size % expected_texture_size = 0
         /\ texture_size \div expected_texture_size = 6)

\* A texture that is larger than expected by an integer factor other than 6
\* is reported as an error.
unpack_factor_error(texture_size, expected_texture_size) ==
    /\ texture_size > expected_texture_size
    /\ texture_size % expected_texture_size = 0
    /\ texture_size \div expected_texture_size /= 6

\* The cubemap test, with no size taken for a cubemap.
unpack_never_cube(texture_size, expected_texture_size) ==
    /\ texture_size > expected_texture_size
    /\ texture_size % expected_texture_size = 0
    /\ texture_size \div expected_texture_size = 0

\* CUBE_MAP is set in flags[1] when the texture is 6 times the expected size.
unpack_is_cube(texture_size, expected_texture_size) ==
    /\ texture_size > expected_texture_size
    /\ texture_size % expected_texture_size = 0
    /\ texture_size \div expected_texture_size = 6

\* Comparison of the actual and the expected size, and the JSON flags.
UnpackReconcile ==
    /\ pc = "u_reconcile"
    /\ IF unpack_too_small(u.texture_size, u.expected_texture_size)
       THEN Fail("smaller") /\ UNCHANGED <<u, json>>
       ELSE IF unpack_factor_error(u.texture_size, u.expected_texture_size)
       THEN Fail("factor") /\ UNCHANGED <<u, json>>
       ELSE /\ u' = [u EXCEPT
                       !.warning = u.texture_size > u.expected_texture_size
                                   /\ u.texture_size % u.expected_texture_size /= 0,
                       !.cube = unpack_is_cube(u.texture_size, u.expected_texture_size),
                       !.expected_texture_size = u.texture_size]
            /\ json' = [json EXCEPT !.flags = [ext |-> g1t.ext, srgb |-> g1t.srgb,
                                               normal |-> g1t.normal]]
            /\ pc' = "u_header"
            /\ UNCHANGED <<err, r>>
    /\ UNCHANGED <<buf, orig, opt, g1t, dds, pk, entry, file>>
    /\ UNCHANGED funvars

\* The listing, then the DDS file is created and its headers written.  With
\* -l the loop continues with the next entry, and ends.
UnpackHeader ==
    /\ pc = "u_header"
    /\ IF opt.list_only
       THEN pc' = "listed" /\ r' = 0 /\ UNCHANGED <<dds, err>>
       ELSE LET h == write_dds_header(u.texture_format, u.width, u.height, u.mipmaps,
                                      header_flags(g1t, u))
                d == [exists |-> TRUE, magic |-> DDS_MAGIC,
                      header |-> IF h.wrote THEN h.header ELSE NoHeader,
                      dx10 |-> h.dx10, payload |-> <<>>]
            IN  /\ dds' = d
                /\ IF h.assert THEN Abort("header")
                   ELSE IF h.r /= 1 THEN Fail("header")
                   ELSE pc' = "u_rgba" /\ UNCHANGED <<err, r>>
    /\ UNCHANGED <<buf, orig, opt, g1t, u, json, pk, entry, file>>
    /\ UNCHANGED funvars

\* rgba_convert from the platform's channel order to ARGB.
UnpackRgba ==
    /\ pc = "u_rgba"
    /\ IF u.texture_format >= DDS_FORMAT_ABGR4 /\ u.texture_format <= DDS_FORMAT_RGBA8
       THEN \E c \in rgba_outcomes(u.texture_format, argb_name(u.texture_format), ARGB,
                                     buf, u.expected_texture_size) :
                IF c.ok THEN buf' = c.buf /\ pc' = "u_morton" /\ UNCHANGED <<err, r>>
                ELSE Abort("rgba_convert") /\ UNCHANGED buf
       ELSE pc' = "u_morton" /\ UNCHANGED <<buf, err, r>>
    /\ UNCHANGED <<orig, opt, g1t, u, json, dds, pk, entry, file>>
    /\ UNCHANGED funvars

\* mortonize with a negative order on each level of a swizzled texture.  The
\* value of log2(0) converted to int16_t is not defined: the order is then 0
\* or the conversion traps.
UnpackMorton ==
    /\ pc = "u_morton"
    /\ IF u.swizzled
       THEN LET m == morton_params(-1, g1t.platform, u.texture_format, u.width, u.height)
                l == morton_levels(u.texture_format, m.mo, u.width, u.height, buf,
                                   u.mipmaps, m.wf, 1, 0)
            IN  \/ /\ l.ok
                   /\ buf' = l.buf /\ pc' = "u_flip" /\ UNCHANGED <<err, r>>
                \/ /\ ~l.ok
                   /\ Abort("mortonize") /\ UNCHANGED buf
                \/ /\ m.undef
                   /\ Abort("log2") /\ UNCHANGED buf
       ELSE pc' = "u_flip" /\ UNCHANGED <<buf, err, r>>
    /\ UNCHANGED <<orig, opt, g1t, u, json, dds, pk, entry, file>>
    /\ UNCHANGED funvars

\* flip, with -f and for the 3DS types 0x09 and 0x45.
UnpackFlip ==
    /\ pc = "u_flip"
    /\ IF flip_wanted(opt.flip_image, g1t.platform, g1t.type)
       THEN LET f == flip(dds_bpp(u.texture_format), buf, u.expected_texture_size, u.width)
            IN  IF f.ok THEN buf' = Splice(buf, 0, f.buf) /\ pc' = "u_frames"
                             /\ UNCHANGED <<err, r>>
                ELSE Abort("flip") /\ UNCHANGED buf
       ELSE pc' = "u_frames" /\ UNCHANGED <<buf, err, r>>
    /\ UNCHANGED <<orig, opt, g1t, u, json, dds, pk, entry, file>>
    /\ UNCHANGED funvars

\* The mipmaps of each frame are written to the DDS file, the JSON entry is
\* appended, and the loop ends with r = 0.
UnpackFrames ==
    /\ pc = "u_frames"
    /\ LET nb_frames == IF u.cube THEN u.nb_frames * 6 ELSE u.nb_frames IN
       /\ u' = [u EXCEPT !.nb_frames = nb_frames]
       /\ dds' = [dds EXCEPT !.payload = unpack_frames(buf, u.texture_format, u.width,
                                                       u.height, u.mipmaps, nb_frames, 0)]
    /\ json' = [json EXCEPT !.exists = TRUE]
    /\ pc' = "unpacked"
    /\ r' = 0
    /\ UNCHANGED <<buf, orig, opt, g1t, pk, entry, file, err>>
    /\ UNCHANGED funvars

-----------------------------------------------------------------------------
(* The pack loop body of main_utf8, for one texture entry *)

\* is_power_of_2 and find_msb of util.h, for v >= 1.
is_power_of_2(v) == Pow2(FloorLog2(v)) = v

find_msb(v) == FloorLog2(v)

\* The size of the DDS file read_file returns.
dds_file_size(d) ==
    (IF d.magic = "" THEN 0 ELSE 4) + d.header.size
    + (IF d.dx10.present THEN DDS_DXT10_BYTES ELSE 0) + Len(d.payload)

\* The value of a DXGI_FORMAT enumerator, by name.
DXGI_FORMAT(name) ==
    CASE name = "BC1_UNORM" -> 71
      [] name = "BC1_UNORM_SRGB" -> 72
      [] name = "BC2_UNORM" -> 74
      [] name = "BC2_UNORM_SRGB" -> 75
      [] name = "BC3_UNORM" -> 77
      [] name = "BC3_UNORM_SRGB" -> 78
      [] name = "B8G8R8A8_UNORM" -> 87
      [] name = "B8G8R8A8_UNORM_SRGB" -> 91
      [] name = "BC6H_UF16" -> 95
      [] name = "BC6H_SF16" -> 96
      [] name = "BC7_UNORM" -> 98
      [] name = "BC7_UNORM_SRGB" -> 99
      [] OTHER -> 0

\* The bytes of the file that follow the DDS_HEADER: the five little-endian
\* words of the DX10 header when the file has one, then the payload.
dds_body(d) ==
    (IF d.dx10.present
     THEN <<DXGI_FORMAT(d.dx10.dxgiFormat), 0, 0, 0, d.dx10.resourceDimension, 0, 0, 0,
            d.dx10.miscFlag, 0, 0, 0, d.dx10.arraySize, 0, 0, 0, 0, 0, 0, 0>>
     ELSE <<>>) \o d.payload

\* The payload is taken to start after the magic and the DDS_HEADER.
dds_payload_offset_fixed(pf) == 4 + 124

\* The offset of dds_payload in the file: after the magic and the DDS_HEADER,
\* and after a DDS_HEADER_DXT10 when the fourCC is that of DDS_FORMAT_DX10.
dds_payload_offset(pf) ==
    4 + 124 + (IF pf.fourCC = get_fourCC(DDS_FORMAT_DX10) THEN DDS_DXT10_BYTES ELSE 0)

\* JSON entry, DDS file and the number of mipmaps.  When the file ends before
\* the offset of the payload, texture_size wraps around and the payload is
\* read after the end of the file buffer: the run is taken to end there.
PackRead ==
    /\ pc = "p_read"
    /\ LET nb_frames == json.nb_frames
           offset == dds_payload_offset(dds.header.ddspf)
           json_mipmaps == json.mipmaps % 16
           dds_mipmaps == dds.header.mipMapCount % 256
           mipmaps == IF json_mipmaps = 0 THEN dds_mipmaps % 16
                      ELSE IF dds_mipmaps < json_mipmaps THEN dds_mipmaps % 16
                      ELSE json_mipmaps
       IN  IF ~dds.exists THEN Fail("read") /\ UNCHANGED <<pk, buf>>
           ELSE IF dds_file_size(dds) <= 124 THEN Fail("too small") /\ UNCHANGED <<pk, buf>>
           ELSE IF dds.magic /= DDS_MAGIC THEN Fail("not a DDS file") /\ UNCHANGED <<pk, buf>>
           ELSE IF dds_file_size(dds) < offset THEN Abort("payload") /\ UNCHANGED <<pk, buf>>
           ELSE /\ pk' = [pk EXCEPT
                            !.nb_frames = IF nb_frames = 0 THEN 1 ELSE nb_frames,
                            !.frames = NbFramesBits(nb_frames),
                            !.texture_size = dds_file_size(dds) - offset,
                            !.mipmaps = mipmaps,
                            !.width = dds.header.width,
                            !.height = dds.header.height,
                            !.warning = json_mipmaps /= 0 /\ dds_mipmaps < json_mipmaps]
                /\ buf' = SubSeq(dds_body(dds), offset - 128 + 1, Len(dds_body(dds)))
                /\ pc' = "p_entry"
                /\ UNCHANGED <<err, r>>
    /\ UNCHANGED <<orig, opt, g1t, u, json, dds, entry, file>>
    /\ UNCHANGED funvars

\* Power-of-two check, then the texture header and the extended data are
\* written to the archive.
PackEntry ==
    /\ pc = "p_entry"
    /\ LET po2_sizes == is_power_of_2(pk.width) /\ is_power_of_2(pk.height)
           data_size == IF ~is_power_of_2(pk.width) THEN 5
                        ELSE IF ~is_power_of_2(pk.width) THEN 4
                        ELSE 3
       IN  IF ~po2_sizes /\ ~json.flags.ext
           THEN Fail("power of two") /\ UNCHANGED entry
           ELSE /\ entry' =
                     [exists |-> TRUE, mipmaps |-> pk.mipmaps, type |-> json.type,
                      dx |-> IF po2_sizes THEN find_msb(pk.width) % 16 ELSE 0,
                      dy |-> IF po2_sizes THEN find_msb(pk.height) % 16 ELSE 0,
                      ext |-> json.flags.ext,
                      data_size |-> IF json.flags.ext THEN data_size * 4 ELSE 0,
                      frames |-> IF json.flags.ext THEN pk.frames ELSE NoFrames,
                      xw |-> IF json.flags.ext /\ data_size >= 4 THEN pk.width ELSE 0,
                      xh |-> IF json.flags.ext /\ data_size >= 5 THEN pk.height ELSE 0]
                /\ pc' = "p_type"
                /\ UNCHANGED <<err, r>>
    /\ UNCHANGED <<buf, orig, opt, g1t, u, json, dds, pk, file>>
    /\ UNCHANGED funvars

\* Default format of the platform and the switch on tex.type.
PackType ==
    /\ pc = "p_type"
    /\ LET t == pack_type(json.type, default_texture_format(g1t.platform)) IN
       /\ pk' = [pk EXCEPT !.texture_format = t.format, !.swizzled = t.swizzled]
       /\ IF t.known THEN pc' = "p_size" /\ UNCHANGED <<err, r>>
          ELSE Fail("unsupported type")
    /\ UNCHANGED <<buf, orig, opt, g1t, u, json, dds, entry, file>>
    /\ UNCHANGED funvars

\* bool cubemap of the pack path.
pack_cubemap(header) ==
    /\ BitAnd(header.caps, DDS_SURFACE_FLAGS_CUBEMAP) /= 0
    /\ BitAnd(header.caps2, DDS_CUBEMAP_ALLFACES) /= 0

\* expected_texture_size and its comparison with the size of the DDS payload.
\* The error message of a payload that is too small prints the expected size.
PackExpectedSize ==
    /\ pc = "p_size"
    /\ LET cubemap == pack_cubemap(dds.header)
           expected == mipmaps_size(pk.texture_format, 0, pk.mipmaps, pk.width,
                                    pk.height, 1)
                       * pk.nb_frames * (IF cubemap THEN 6 ELSE 1)
       IN  IF pk.mipmaps > 0 /\ pk.texture_format \notin CatalogFormats
           THEN Abort("format") /\ UNCHANGED pk
           ELSE IF cubemap /\ BitAnd(dds.header.caps2, DDS_CUBEMAP_ALLFACES)
                                 /= DDS_CUBEMAP_ALLFACES
           THEN Fail("missing faces") /\ UNCHANGED pk
           ELSE IF expected > pk.texture_size
           THEN /\ Fail("smaller")
                /\ pk' = [pk EXCEPT !.expected_texture_size = expected, !.cube = cubemap]
           ELSE IF pk.texture_format \notin CatalogFormats
           THEN Abort("format") /\ UNCHANGED pk
           ELSE IF (pk.texture_size * 8) % dds_bpp(pk.texture_format) /= 0
           THEN Fail("multiple") /\ UNCHANGED pk
           ELSE /\ pk' = [pk EXCEPT
                            !.expected_texture_size = expected,
                            !.cube = cubemap,
                            !.warning = pk.warning
                                \/ (expected < pk.texture_size
                                    /\ dds.header.mipMapCount % 256 <= pk.mipmaps),
                            !.texture_size = IF expected < pk.texture_size THEN expected
                                             ELSE pk.texture_size]
                /\ pc' = "p_validate"
                /\ UNCHANGED <<err, r>>
    /\ UNCHANGED <<buf, orig, opt, g1t, u, json, dds, entry, file>>
    /\ UNCHANGED funvars

\* The switch on ddspf.flags & (DDS_ALPHAPIXELS | DDS_FOURCC | DDS_RGB):
\* "" when the pixel format is accepted, else the error.
pack_pixelformat(pf) ==
    LET sel == BitAnd(pf.flags, BitOr(BitOr(DDS_ALPHAPIXELS, DDS_FOURCC), DDS_RGB)) IN
    IF sel = DDS_RGBA
    THEN IF pf.RGBBitCount \notin {16, 32, 64, 128} THEN "not ARGB" ELSE ""
    ELSE IF sel = DDS_RGB
    THEN IF pf.RGBBitCount /= 24 \/ pf.RBitMask /= "00ff0000" \/ pf.GBitMask /= "0000ff00"
            \/ pf.BBitMask /= "000000ff" \/ pf.ABitMask /= "00000000"
         THEN "not RGB" ELSE ""
    ELSE IF sel = DDS_FOURCC THEN ""
    ELSE "not supported"

PackValidate ==
    /\ pc = "p_validate"
    /\ IF pack_pixelformat(dds.header.ddspf) = ""
       THEN pc' = "p_flip" /\ UNCHANGED <<err, r>>
       ELSE Fail(pack_pixelformat(dds.header.ddspf))
    /\ UNCHANGED <<buf, orig, opt, g1t, u, json, dds, pk, entry, file>>
    /\ UNCHANGED funvars

\* flip, with -f and for the 3DS types 0x09 and 0x45.
PackFlip ==
    /\ pc = "p_flip"
    /\ IF flip_wanted(opt.flip_image, g1t.platform, json.type)
       THEN LET f == flip(dds_bpp(pk.texture_format), buf, pk.texture_size, pk.width)
            IN  IF f.ok THEN buf' = Splice(buf, 0, f.buf) /\ pc' = "p_morton"
                             /\ UNCHANGED <<err, r>>
                ELSE Abort("flip") /\ UNCHANGED buf
       ELSE pc' = "p_morton" /\ UNCHANGED <<buf, err, r>>
    /\ UNCHANGED <<orig, opt, g1t, u, json, dds, pk, entry, file>>
    /\ UNCHANGED funvars

\* mortonize with a positive order on each level of a swizzled texture, after
\* assert(mo != 0).
PackMorton ==
    /\ pc = "p_morton"
    /\ IF pk.swizzled
       THEN LET m == morton_params(1, g1t.platform, pk.texture_format, pk.width, pk.height)
                l == morton_levels(pk.texture_format, m.mo, pk.width, pk.height, buf,
                                   pk.mipmaps, m.wf, 1, 0)
            IN  \/ /\ m.mo /= 0 /\ l.ok
                   /\ buf' = l.buf /\ pc' = "p_rgba" /\ UNCHANGED <<err, r>>
                \/ /\ m.mo /= 0 /\ ~l.ok
                   /\ Abort("mortonize") /\ UNCHANGED buf
                \/ /\ m.mo = 0
                   /\ Abort("order") /\ UNCHANGED buf
       ELSE pc' = "p_rgba" /\ UNCHANGED <<buf, err, r>>
    /\ UNCHANGED <<orig, opt, g1t, u, json, dds, pk, entry, file>>
    /\ UNCHANGED funvars

\* rgba_convert from ARGB to the platform's channel order.
PackRgba ==
    /\ pc = "p_rgba"
    /\ IF pk.texture_format >= DDS_FORMAT_ABGR4 /\ pk.texture_format <= DDS_FORMAT_RGBA8
       THEN \E c \in rgba_outcomes(pk.texture_format, ARGB, argb_name(pk.texture_format),
                                     buf, pk.texture_size) :
                IF c.ok THEN buf' = c.buf /\ pc' = "p_frames" /\ UNCHANGED <<err, r>>
                ELSE Abort("rgba_convert") /\ UNCHANGED buf
       ELSE pc' = "p_frames" /\ UNCHANGED <<buf, err, r>>
    /\ UNCHANGED <<orig, opt, g1t, u, json, dds, pk, entry, file>>
    /\ UNCHANGED funvars

\* Each level of every frame is written to the archive, and the loop ends
\* with r = 0.
PackFrames ==
    /\ pc = "p_frames"
    /\ LET nb_frames == IF pk.cube THEN pk.nb_frames * 6 ELSE pk.nb_frames
           f_size == pk.texture_size \div nb_frames
       IN  /\ pk' = [pk EXCEPT !.nb_frames = nb_frames]
           /\ file' = pack_frames(buf, pk.texture_format, pk.width, pk.height, pk.mipmaps,
                                  nb_frames, f_size, 0, 0)
    /\ pc' = "packed"
    /\ r' = 0
    /\ UNCHANGED <<buf, orig, opt, g1t, u, json, dds, entry, err>>
    /\ UNCHANGED funvars

\* The archive is recreated from the directory the extraction produced: the
\* JSON entry, the DDS file, the platform and the same -f setting.
Repack ==
    /\ pc = "unpacked"
    /\ json.exists
    /\ pc' = "p_read"
    /\ r' = -1
    /\ buf' = <<>>
    /\ UNCHANGED <<orig, opt, g1t, u, json, dds, pk, entry, file, err>>
    /\ UNCHANGED funvars

-----------------------------------------------------------------------------
(* Inputs of the pack and unpack loops, and their specification *)

\* The texture types either switch has a case for, and 0x05, which neither has.
Types ==
    {0, 1, 2, 3, 4, 5, 6, 7, 8, 9, 16, 17, 18, 33, 60, 61, 69, 89, 90, 91, 92, 94,
     95, 96, 97, 98, 114}

\* The function specifications do not run.
FunIdle ==
    /\ fn = [format |-> DDS_FORMAT_UNKNOWN]
    /\ mid = <<>>
    /\ res = 0

\* Extended data blocks of an archive entry: absent, 12, 16 or 20 bytes with
\* and without a frame count, and sizes the unpack path rejects.
ExtChoices ==
    {[ext |-> FALSE, data_size |-> 0, frames |-> NoFrames, xw |-> 0, xh |-> 0],
     [ext |-> TRUE, data_size |-> 12, frames |-> NoFrames, xw |-> 0, xh |-> 0],
     [ext |-> TRUE, data_size |-> 12, frames |-> NbFramesBits(2), xw |-> 0, xh |-> 0],
     [ext |-> TRUE, data_size |-> 12, frames |-> NbFramesBits(1), xw |-> 0, xh |-> 0],
     [ext |-> TRUE, data_size |-> 16, frames |-> NoFrames, xw |-> 12, xh |-> 0],
     [ext |-> TRUE, data_size |-> 20, frames |-> NoFrames, xw |-> 6, xh |-> 4],
     [ext |-> TRUE, data_size |-> 20, frames |-> NbFramesBits(3), xw |-> 3, xh |-> 5],
     [ext |-> TRUE, data_size |-> 20, frames |-> NoFrames, xw |-> 0, xh |-> 4],
     [ext |-> TRUE, data_size |-> 8, frames |-> NoFrames, xw |-> 0, xh |-> 0],
     [ext |-> TRUE, data_size |-> 0, frames |-> NoFrames, xw |-> 0, xh |-> 0]}

\* An archive entry.
G1TEntry(platform, type, mipmaps, dx, dy, global, x, srgb, normal) ==
    [platform |-> platform, type |-> type, mipmaps |-> mipmaps, dx |-> dx, dy |-> dy,
     global |-> global, ext |-> x.ext, srgb |-> srgb, normal |-> normal,
     data_size |-> x.data_size, frames |-> x.frames, xw |-> x.xw, xh |-> x.xh]

\* The size the unpack path expects for an entry, 16 when it computes none.
EntrySize(g) ==
    LET data_size == IF g.ext THEN g.data_size ELSE 0
        frames == IF data_size >= 12 THEN GET_NB_FRAMES(g.frames) ELSE 0
        format == unpack_type(g.type, default_texture_format(g.platform)).format
        e == mipmaps_size(format, 0, g.mipmaps,
                          IF data_size >= 16 THEN g.xw ELSE Pow2(g.dx),
                          IF data_size >= 20 THEN g.xh ELSE Pow2(g.dy),
                          IF frames = 0 THEN 1 ELSE frames)
    IN  IF format \in CatalogFormats /\ e > 0 THEN e ELSE 16

\* Payload sizes around the expected size e: shorter, equal, larger by a few
\* bytes, and 2, 5, 6 and 7 times as large.
SizeChoices(e) ==
    {n \in {e - 1, e \div 2, e, e + 1, e + 4, 2 * e, 5 * e, 6 * e, 6 * e + 4, 7 * e} :
        n >= 0 /\ n <= MaxPayload}

\* Entries of all kinds and sizes, for a few platforms and types.
SizeEntries ==
    {G1TEntry(platform, type, mipmaps, d[1], d[2], FALSE, x, FALSE, FALSE) :
        platform \in {SONY_PS3, SONY_PS4},
        type \in {1, 3, 5, 16, 60, 89},
        mipmaps \in 0..2,
        d \in {<<2, 2>>, <<3, 2>>},
        x \in ExtChoices}
    \cup
    {G1TEntry(MICROSOFT_WINDOWS, type, 1, 2, 2, global, ExtChoice, srgb, normal) :
        type \in {1, 89, 94, 95},
        global \in BOOLEAN, srgb \in BOOLEAN, normal \in BOOLEAN,
        ExtChoice \in {x \in ExtChoices : x.data_size = 12 \/ ~x.ext}}

\* Entries of the expected size, for every platform and type.
TransformEntries ==
    {G1TEntry(platform, type, mipmaps, d[1], d[2], FALSE, x, FALSE, FALSE) :
        platform \in Platforms,
        type \in Types,
        mipmaps \in 1..2,
        d \in {<<2, 2>>, <<3, 3>>, <<4, 3>>},
        x \in {x \in ExtChoices : x.data_size \in {0, 20} /\ x.frames = NoFrames
                                  /\ (x.ext => x.xw = 6)}}

\* A 256x256 DXT1 texture with 9 levels, 1 frame, no cubemap.  The expected
\* size is computed from the header alone: the example entry carries the first
\* ExamplePayload bytes of its payload only, and is rejected at the comparison.
ExampleEntry ==
    G1TEntry(MICROSOFT_WINDOWS, 89, 9, 8, 8, FALSE, CHOOSE x \in ExtChoices : ~x.ext,
             FALSE, FALSE)

ExamplePayload == 16

UnpackInit ==
    /\ pc = "u_parse"
    /\ \/ \E g \in SizeEntries : \E n \in SizeChoices(EntrySize(g)) :
            /\ g1t = g
            /\ buf = Pattern(n, 37, 18)
            /\ opt \in {[flip_image |-> FALSE, list_only |-> l] :
                          l \in IF g.platform = MICROSOFT_WINDOWS THEN BOOLEAN ELSE {FALSE}}
       \/ \E g \in TransformEntries :
            /\ EntrySize(g) <= MaxPayload
            /\ g1t = g
            /\ buf = Pattern(EntrySize(g), 37, 18)
            /\ opt \in {[flip_image |-> f, list_only |-> FALSE] : f \in BOOLEAN}
       \/ /\ g1t = ExampleEntry
          /\ buf = Pattern(ExamplePayload, 37, 18)
          /\ opt = [flip_image |-> FALSE, list_only |-> FALSE]
    /\ orig = buf
    /\ u = NoLocals
    /\ json = NoJson
    /\ dds = NoDDS
    /\ pk = NoLocals
    /\ entry = NoEntry
    /\ file = <<>>
    /\ err = ""
    /\ r = -1
    /\ FunIdle

\* Pixel formats of DDS files given to the pack path: the ones
\* write_dds_header emits, and ones with other bit counts, masks, flags and
\* four-character codes.
PixelFormats ==
    {dds_pixelformat(f, x).pf :
        f \in {DDS_FORMAT_RGBA8, DDS_FORMAT_ARGB4, DDS_FORMAT_BGR8, DDS_FORMAT_R8,
               DDS_FORMAT_DXT1, DDS_FORMAT_BC7},
        x \in BOOLEAN}
    \cup {[dds_pixelformat(DDS_FORMAT_RGBA8, FALSE).pf EXCEPT !.RGBBitCount = 24],
          [dds_pixelformat(DDS_FORMAT_BGR8, FALSE).pf EXCEPT !.RBitMask = "000000ff",
                                                             !.BBitMask = "00ff0000"],
          [dds_pixelformat(DDS_FORMAT_BGR8, FALSE).pf EXCEPT !.RGBBitCount = 32],
          [dds_pixelformat(DDS_FORMAT_DXT1, FALSE).pf EXCEPT !.normal = TRUE],
          [dds_pixelformat(DDS_FORMAT_DXT1, FALSE).pf EXCEPT !.fourCC = "XXXX"],
          NoPixelFormat}

\* A DDS file of the given dimensions, mipmap count, pixel format and caps.
DDSFile(magic, width, height, mipMapCount, pf, caps, caps2, n) ==
    [exists |-> TRUE, magic |-> magic,
     header |-> [size |-> 124, flags |-> DDS_HEADER_FLAGS_TEXTURE, height |-> height,
                 width |-> width, pitchOrLinearSize |-> 0, mipMapCount |-> mipMapCount,
                 ddspf |-> pf, caps |-> caps, caps2 |-> caps2],
     dx10 |-> IF pf.fourCC = get_fourCC(DDS_FORMAT_DX10)
              THEN [present |-> TRUE, dxgiFormat |-> "UNKNOWN",
                    resourceDimension |-> D3D10_RESOURCE_DIMENSION_TEXTURE2D,
                    miscFlag |-> 0, arraySize |-> 1]
              ELSE NoDx10,
     payload |-> Pattern(n, 37, 18)]

\* The DDS file of the 256x256 DXT1 texture with 9 levels, and its JSON entry.
ExampleDDS ==
    DDSFile(DDS_MAGIC, 256, 256, 9, dds_pixelformat(DDS_FORMAT_DXT1, FALSE).pf,
            DDS_SURFACE_FLAGS_TEXTURE, 0, ExamplePayload)

ExampleJson ==
    [exists |-> TRUE, type |-> 89, mipmaps |-> 9, nb_frames |-> 0, flags |-> NoJson.flags]

\* Payload sizes of the DDS files given to the pack path.
PackSizes == {0, 15, 16, 64, 80, 128, 384}

\* The cubemap bits of caps and caps2: none, all faces, two faces.
CapsChoices ==
    {<<DDS_SURFACE_FLAGS_TEXTURE, 0>>,
     <<BitOr(DDS_SURFACE_FLAGS_TEXTURE, DDS_SURFACE_FLAGS_CUBEMAP), DDS_CUBEMAP_ALLFACES>>,
     <<BitOr(DDS_SURFACE_FLAGS_TEXTURE, DDS_SURFACE_FLAGS_CUBEMAP), 1536>>}

PackInit ==
    /\ pc = "p_read"
    /\ \/ \E type \in {1, 69, 89}, pf \in PixelFormats, c \in CapsChoices,
             n \in PackSizes, magic \in {DDS_MAGIC, "DDS"} :
            /\ n <= MaxPayload
            /\ json = [exists |-> TRUE, type |-> type, mipmaps |-> 0, nb_frames |-> 0,
                       flags |-> NoJson.flags]
            /\ dds = DDSFile(magic, 4, 4, 1, pf, c[1], c[2], n)
            /\ g1t = [NoG1T EXCEPT !.platform = MICROSOFT_WINDOWS]
       \/ \E type \in {1, 5, 16, 89}, platform \in {MICROSOFT_WINDOWS, SONY_PSV},
             d \in {<<4, 4>>, <<8, 8>>, <<6, 4>>, <<4, 6>>}, jm \in 0..2, dm \in 0..2,
             nb_frames \in {0, 2}, ext \in BOOLEAN, n \in PackSizes :
            /\ n <= MaxPayload
            /\ json = [exists |-> TRUE, type |-> type, mipmaps |-> jm,
                       nb_frames |-> nb_frames,
                       flags |-> [NoJson.flags EXCEPT !.ext = ext]]
            /\ dds = DDSFile(DDS_MAGIC, d[1], d[2], dm,
                             dds_pixelformat(pack_type(type,
                                 default_texture_format(platform)).format, FALSE).pf,
                             DDS_SURFACE_FLAGS_TEXTURE, 0, n)
            /\ g1t = [NoG1T EXCEPT !.platform = platform]
       \/ /\ json = [NoJson EXCEPT !.exists = TRUE, !.type = 1]
          /\ dds \in {NoDDS, [NoDDS EXCEPT !.exists = TRUE, !.magic = DDS_MAGIC]}
          /\ g1t = [NoG1T EXCEPT !.platform = MICROSOFT_WINDOWS]
       \/ /\ json = ExampleJson
          /\ dds = ExampleDDS
          /\ g1t = [NoG1T EXCEPT !.platform = MICROSOFT_WINDOWS]
    /\ opt = [flip_image |-> FALSE, list_only |-> FALSE]
    /\ buf = <<>>
    /\ orig = dds.payload
    /\ u = NoLocals
    /\ pk = NoLocals
    /\ entry = NoEntry
    /\ file = <<>>
    /\ err = ""
    /\ r = -1
    /\ FunIdle

Init == UnpackInit \/ PackInit

Next ==
    \/ UnpackParse
    \/ UnpackExpectedSize
    \/ UnpackReconcile
    \/ UnpackHeader
    \/ UnpackRgba
    \/ UnpackMorton
    \/ UnpackFlip
    \/ UnpackFrames
    \/ Repack
    \/ PackRead
    \/ PackEntry
    \/ PackType
    \/ PackExpectedSize
    \/ PackValidate
    \/ PackFlip
    \/ PackMorton
    \/ PackRgba
    \/ PackFrames

Spec == Init /\ [][Next]_vars

-----------------------------------------------------------------------------
(* mortonize applied twice, with opposite orders *)

MortonFormats == {DDS_FORMAT_R8, DDS_FORMAT_BGR8, DDS_FORMAT_RGBA8, DDS_FORMAT_DXT1}

\* Bytes per element, and the pixel dimensions and size of a raster of
\* fn.ew x fn.eh elements.  The buffer given to mortonize has that size, or is
\* one element larger (fn.extra).
MortonElemBytes(a) == (dds_bpp(a.format) * dds_bwh(a.format) * dds_bwh(a.format) * a.wf) \div 8
MortonWidth(a) == a.ew * dds_bwh(a.format) * a.wf
MortonHeight(a) == a.eh * dds_bwh(a.format)
MortonSize(a) == MortonElemBytes(a) * a.ew * a.eh
MortonOrder(a, step) == IF (a.first = "fwd") = (step = 1) THEN a.k ELSE -a.k

MortonInit ==
    /\ pc = "m_init"
    /\ fn \in [format : MortonFormats, k : 1..MaxOrder, wf : {1, 2},
               ew : 1..MaxDim, eh : 1..MaxDim, first : {"fwd", "rev"},
               extra : {0, 1}]
    /\ buf \in {Pattern(MortonSize(fn) + fn.extra * MortonElemBytes(fn), 1, 0),
                Pattern(MortonSize(fn) + fn.extra * MortonElemBytes(fn), 37, 18)}
    /\ orig = buf
    /\ mid = <<>>
    /\ res = 0
    /\ PipeIdle

MortonFirst ==
    /\ pc = "m_init"
    /\ \E m \in {mortonize(fn.format, MortonOrder(fn, 1), MortonWidth(fn),
                           MortonHeight(fn), buf, Len(buf), fn.wf)} :
           /\ pc' = IF m.ok THEN "m_mid" ELSE "abort"
           /\ buf' = m.buf
           /\ mid' = IF m.ok THEN m.buf ELSE mid
    /\ UNCHANGED <<fn, orig, res>>
    /\ UNCHANGED pipevars

MortonSecond ==
    /\ pc = "m_mid"
    /\ \E m \in {mortonize(fn.format, MortonOrder(fn, 2), MortonWidth(fn),
                           MortonHeight(fn), buf, Len(buf), fn.wf)} :
           /\ pc' = IF m.ok THEN "m_done" ELSE "abort"
           /\ buf' = m.buf
    /\ UNCHANGED <<fn, orig, mid, res>>
    /\ UNCHANGED pipevars

MortonNext == MortonFirst \/ MortonSecond

SpecMorton == MortonInit /\ [][MortonNext]_vars

-----------------------------------------------------------------------------
(* rgba_convert applied from order A to order B and back *)

RgbaFormats == DDS_FORMAT_ABGR4..DDS_FORMAT_RGBA8

\* The channel orders: the permutations of the letters R, G, B, A.
ChannelOrders ==
    {o \in [1..4 -> {"R", "G", "B", "A"}] : \A i, j \in 1..4 : i /= j => o[i] /= o[j]}

RgbaInit ==
    /\ pc = "r_init"
    /\ fn \in [format : RgbaFormats, in : ChannelOrders, out : ChannelOrders,
               groups : 1..MaxGroups]
    /\ buf \in {Pattern(4 * fn.groups, 17, 18), Pattern(4 * fn.groups, 37, 201)}
    /\ orig = buf
    /\ mid = <<>>
    /\ res = 0
    /\ PipeIdle

RgbaFirst ==
    /\ pc = "r_init"
    /\ LET c == rgba_convert(fn.format, fn.in, fn.out, buf, Len(buf))
       IN  /\ pc' = IF c.ok THEN "r_mid" ELSE "abort"
           /\ buf' = c.buf
           /\ mid' = c.buf
    /\ UNCHANGED <<fn, orig, res>>
    /\ UNCHANGED pipevars

RgbaSecond ==
    /\ pc = "r_mid"
    /\ LET c == rgba_convert(fn.format, fn.out, fn.in, buf, Len(buf))
       IN  /\ pc' = IF c.ok THEN "r_done" ELSE "abort"
           /\ buf' = c.buf
    /\ UNCHANGED <<fn, orig, mid, res>>
    /\ UNCHANGED pipevars

RgbaNext == RgbaFirst \/ RgbaSecond

SpecRgba == RgbaInit /\ [][RgbaNext]_vars

-----------------------------------------------------------------------------
(* flip applied twice *)

FlipLineSize(a) == a.width * (a.bpp \div 8)

FlipInit ==
    /\ pc = "f_init"
    /\ fn \in [bpp : {8, 16, 24, 32}, width : 1..MaxWidth, lines : 1..MaxLines,
               extra : {0, 1}]
    /\ buf \in {Pattern(FlipLineSize(fn) * fn.lines + fn.extra, 1, 0),
                Pattern(FlipLineSize(fn) * fn.lines + fn.extra, 37, 18)}
    /\ orig = buf
    /\ mid = <<>>
    /\ res = 0
    /\ PipeIdle

FlipFirst ==
    /\ pc = "f_init"
    /\ LET f == flip(fn.bpp, buf, Len(buf), fn.width)
       IN  /\ pc' = IF f.ok THEN "f_mid" ELSE "abort"
           /\ buf' = f.buf
           /\ mid' = IF f.ok THEN f.buf ELSE mid
    /\ UNCHANGED <<fn, orig, res>>
    /\ UNCHANGED pipevars

FlipSecond ==
    /\ pc = "f_mid"
    /\ LET f == flip(fn.bpp, buf, Len(buf), fn.width)
       IN  /\ pc' = IF f.ok THEN "f_done" ELSE "abort"
           /\ buf' = f.buf
    /\ UNCHANGED <<fn, orig, mid, res>>
    /\ UNCHANGED pipevars

FlipNext == FlipFirst \/ FlipSecond

SpecFlip == FlipInit /\ [][FlipNext]_vars

-----------------------------------------------------------------------------
(* MIPMAP_SIZE of one level *)

MipInit ==
    /\ pc = "s_init"
    /\ fn \in [format : CatalogFormats, level : 0..MaxLevel,
               w : 1..MaxSide, h : 1..MaxSide]
    /\ buf = <<>>
    /\ orig = <<>>
    /\ mid = <<>>
    /\ res = 0
    /\ PipeIdle

MipSize ==
    /\ pc = "s_init"
    /\ pc' = "s_done"
    /\ res' = MIPMAP_SIZE(fn.format, fn.level, fn.w, fn.h)
    /\ UNCHANGED <<fn, buf, orig, mid>>
    /\ UNCHANGED pipevars

MipNext == MipSize

SpecMip == MipInit /\ [][MipNext]_vars

-----------------------------------------------------------------------------
(* write_dds_header for one texture *)

MaxFrames == 17

HeaderInit ==
    /\ pc = "h_init"
    /\ fn \in [format : DDS_FORMAT_UNKNOWN..DDS_FORMAT_ARGB32, width : {0, 4, 6},
               height : {4}, mipmaps : 0..MaxLevel,
               flags : [srgb : BOOLEAN, normal : BOOLEAN, cube : BOOLEAN,
                        frames : {NbFramesBits(n) : n \in 0..MaxFrames}]]
    /\ buf = <<>>
    /\ orig = <<>>
    /\ mid = <<>>
    /\ res = 0
    /\ PipeIdle

HeaderWrite ==
    /\ pc = "h_init"
    /\ pc' = "h_done"
    /\ res' = write_dds_header(fn.format, fn.width, fn.height, fn.mipmaps, fn.flags)
    /\ UNCHANGED <<fn, buf, orig, mid>>
    /\ UNCHANGED pipevars

HeaderNext == HeaderWrite

SpecHeader == HeaderInit /\ [][HeaderNext]_vars

-----------------------------------------------------------------------------
(* dds_bwh, dds_bpb and dds_bpp called with one format identifier *)

\* Identifiers up to MaxFormat: the enumerators of DDS_FORMAT and values that
\* follow them.
MaxFormat == 33

CatalogInit ==
    /\ pc = "c_init"
    /\ fn \in [format : DDS_FORMAT_UNKNOWN..MaxFormat]
    /\ buf = <<>>
    /\ orig = <<>>
    /\ mid = <<>>
    /\ res = 0
    /\ PipeIdle

\* dds_bwh has no assertion: its default branch returns 1.
CatalogBwh ==
    /\ pc = "c_init"
    /\ pc' = "c_done"
    /\ res' = [call |-> "dds_bwh", assert |-> FALSE, value |-> dds_bwh(fn.format)]
    /\ UNCHANGED <<fn, buf, orig, mid>>
    /\ UNCHANGED pipevars

\* The default branch of dds_bpb is assert(false).
CatalogBpb ==
    /\ pc = "c_init"
    /\ pc' = "c_done"
    /\ res' = [call |-> "dds_bpb", assert |-> fn.format \notin CatalogFormats,
               value |-> dds_bpb(fn.format)]
    /\ UNCHANGED <<fn, buf, orig, mid>>
    /\ UNCHANGED pipevars

\* The default branch of dds_bpp is assert(false).
CatalogBpp ==
    /\ pc = "c_init"
    /\ pc' = "c_done"
    /\ res' = [call |-> "dds_bpp", assert |-> fn.format \notin CatalogFormats,
               value |-> dds_bpp(fn.format)]
    /\ UNCHANGED <<fn, buf, orig, mid>>
    /\ UNCHANGED pipevars

CatalogNext == CatalogBwh \/ CatalogBpb \/ CatalogBpp

SpecCatalog == CatalogInit /\ [][CatalogNext]_vars

-----------------------------------------------------------------------------
(* Claims *)

\* ceil(a / b) for a >= 0, b >= 1.
CeilDiv(a, b) == (a + b - 1) \div b

IsPowerOfTwo(v) == \E e \in 0..16 : v = Pow2(e)

\* C1: mortonize with order +k followed by order -k (and -k followed by +k),
\* on a buffer of exactly width * height elements whose dimensions are
\* multiples of 2^k, returns the original buffer byte for byte.
C1_MortonRoundTrip == pc = "m_done" => buf = orig

C1_Witness ==
    /\ pc = "m_done"
    /\ fn.k >= 2 /\ fn.wf = 2 /\ fn.ew > Pow2(fn.k) /\ fn.first = "rev"
    /\ mid /= orig
    /\ buf = orig

\* C2: rgba_convert from order A to order B followed by rgba_convert from B to
\* A restores every byte, for the 16-bit and the 32-bit RGBA formats.
C2_RgbaRoundTrip == pc = "r_done" => buf = orig

\* The number n of lines of the buffer given to flip.
FlipLines == Len(orig) \div FlipLineSize(fn)

\* C4: flip writes input line (n - 1 - i) to output line i for every i, and
\* flip applied twice returns the original buffer.
C4_FlipReversal ==
    /\ pc \in {"f_mid", "f_done"} =>
          /\ Len(mid) = Len(orig)
          /\ \A i \in 0..(FlipLines - 1) : \A o \in 1..FlipLineSize(fn) :
                mid[i * FlipLineSize(fn) + o]
                    = orig[(FlipLines - 1 - i) * FlipLineSize(fn) + o]
    /\ pc = "f_done" => buf = orig

C4_Witness ==
    /\ pc = "f_done"
    /\ fn.lines >= 3 /\ fn.width >= 2 /\ fn.bpp = 24
    /\ mid /= orig
    /\ buf = orig

\* The number of blocks of side b that cover d pixels, at least one: the
\* least n >= 1 with n * b >= d.
Blocks(d, b) == CHOOSE n \in 1..(d + 1) : n * b >= d /\ (n = 1 \/ (n - 1) * b < d)

\* The mip level size as the claim states it, with w / 2^level an exact
\* quotient: ceil((w / 2^level) / block_w) is ceil(w / (2^level * block_w)).
ExactMipSize(f, l, w, h) ==
    max(1, CeilDiv(w, Pow2(l) * dds_bwh(f))) *
    max(1, CeilDiv(h, Pow2(l) * dds_bwh(f))) * dds_bpb(f)

\* C5 as stated: MIPMAP_SIZE(f, level, w, h) equals
\* max(1, ceil((w / 2^level) / block_w)) * max(1, ceil((h / 2^level) / block_h))
\* * bytes_per_block(f) for every width and height >= 1.
C5_Original == pc = "s_done" => res = ExactMipSize(fn.format, fn.level, fn.w, fn.h)

\* C5 as amended: MIPMAP_SIZE(f, level, w, h) is the number of blocks covering
\* floor(w / 2^level) pixels (at least one) times the number covering
\* floor(h / 2^level) pixels (at least one) times bytes_per_block(f); when w and
\* h are powers of two this is the value the claim states.
C5_MipLevelSize ==
    pc = "s_done" =>
        /\ res = Blocks(fn.w \div Pow2(fn.level), dds_bwh(fn.format))
                 * Blocks(fn.h \div Pow2(fn.level), dds_bwh(fn.format))
                 * dds_bpb(fn.format)
        /\ (IsPowerOfTwo(fn.w) /\ IsPowerOfTwo(fn.h)) =>
               res = ExactMipSize(fn.format, fn.level, fn.w, fn.h)

C5_Witness ==
    /\ pc = "s_done"
    /\ fn.format = DDS_FORMAT_DXT1 /\ fn.level = 1 /\ fn.w = 9 /\ fn.h = 5
    /\ res = 8
    /\ ExactMipSize(fn.format, fn.level, fn.w, fn.h) = 16

-----------------------------------------------------------------------------
(* The size of a texture and the comparison with the payload *)

\* The sum of the level sizes of levels 0..n-1.
RECURSIVE LevelSum(_, _, _, _)
LevelSum(f, n, w, h) ==
    IF n = 0 THEN 0 ELSE LevelSum(f, n - 1, w, h) + MIPMAP_SIZE(f, n - 1, w, h)

\* frame_count * (6 if cubemap else 1) * the sum of the level sizes.
TotalSize(f, n, w, h, frame_count, cubemap) ==
    frame_count * (IF cubemap THEN 6 ELSE 1) * LevelSum(f, n, w, h)

\* The frame count of an entry: the frame bits of its extra data, 1 when 0.
FrameCount(frames) ==
    IF frames.lo + 16 * frames.hi = 0 THEN 1 ELSE frames.lo + 16 * frames.hi

\* The size the unpack path expects before it looks at the payload.
UnpackBase ==
    TotalSize(u.texture_format, u.mipmaps, u.width, u.height, FrameCount(u.frames), FALSE)

\* The unpack path has compared the payload with the expected size.
UnpackCompared == u.expected_texture_size > 0 /\ pc /= "u_reconcile"

\* The unpack path is past the comparison and has not failed in it.
UnpackAccepted == UnpackCompared /\ err \notin {"smaller", "factor"}

\* The DDS file given to the pack path is a cubemap.
DDSCubemap ==
    /\ BitAnd(dds.header.caps, DDS_SURFACE_FLAGS_CUBEMAP) /= 0
    /\ BitAnd(dds.header.caps2, DDS_CUBEMAP_ALLFACES) /= 0

\* The size the pack path expects of the DDS payload.
PackBase ==
    TotalSize(pk.texture_format, pk.mipmaps, pk.width, pk.height,
              IF json.nb_frames = 0 THEN 1 ELSE json.nb_frames, DDSCubemap)

\* The pack path has resolved the format and is past the size step.
PackCompared ==
    /\ pk.texture_format \in CatalogFormats
    /\ pc \notin {"p_read", "p_entry", "p_type", "p_size"}
    /\ err /= "unsupported type"

\* The sum over L = 0..8 of max(1, 64 / 2^L)^2 * 8.
RECURSIVE ExampleSum(_)
ExampleSum(L) ==
    IF L > 8 THEN 0
    ELSE max(1, 64 \div Pow2(L)) * max(1, 64 \div Pow2(L)) * 8 + ExampleSum(L + 1)

\* C6: on both paths the expected size computed for a texture is frame_count
\* * (6 if cubemap else 1) * the sum of the level sizes of levels
\* 0..mip_count-1: on the unpack path when it is computed (no cubemap is known
\* then) and, once a payload of that size or of 6 times that size is accepted,
\* with the factor 6 of the cubemap; on the pack path with the cubemap bit of
\* the DDS file.  A 256x256 DXT1 texture with 9 levels, 1 frame and no cubemap
\* gives the sum over L = 0..8 of max(1, 64 / 2^L)^2 * 8.
C6_TotalExpectedSize ==
    /\ pc = "u_reconcile" =>
           /\ ~u.cube
           /\ u.expected_texture_size = UnpackBase
    /\ (UnpackAccepted /\ ~u.warning) =>
           u.expected_texture_size
               = TotalSize(u.texture_format, u.mipmaps, u.width, u.height,
                           FrameCount(u.frames), u.cube)
    /\ pc = "p_validate" =>
           /\ pk.cube = DDSCubemap
           /\ pk.expected_texture_size = PackBase
    /\ (g1t = ExampleEntry /\ pc = "u_reconcile") =>
           u.expected_texture_size = ExampleSum(0)
    /\ (dds = ExampleDDS /\ json = ExampleJson /\ PackCompared) =>
           pk.expected_texture_size = ExampleSum(0)

\* The unpack path has computed 43704 bytes for the 256x256 DXT1 texture with
\* 9 levels.
C6_Witness ==
    /\ g1t = ExampleEntry
    /\ pc = "u_reconcile"
    /\ u.texture_format = DDS_FORMAT_DXT1
    /\ u.mipmaps = 9 /\ u.width = 256 /\ u.height = 256
    /\ FrameCount(u.frames) = 1 /\ ~u.cube
    /\ u.expected_texture_size = 43704

\* C7: on unpack, when the payload of an entry is exactly 6 times the expected
\* size, the comparison raises no error and sets the cube-map flag, the entry
\* is processed further, and when its DDS file is complete 6 * frame_count
\* faces, the whole payload, have been written to it.
C7_CubemapReclassification ==
    (UnpackCompared /\ u.texture_size = 6 * UnpackBase) =>
        /\ err \notin {"smaller", "factor"}
        /\ u.cube
        /\ pc = "unpacked" =>
               /\ u.nb_frames = 6 * FrameCount(u.frames)
               /\ Len(dds.payload) = 6 * UnpackBase
               /\ BitAnd(dds.header.caps, DDS_SURFACE_FLAGS_CUBEMAP) /= 0
               /\ dds.header.caps2 = DDS_CUBEMAP_ALLFACES

\* A texture array of 2 frames with a payload of 6 times the expected size has
\* been unpacked as a cubemap of 12 faces.
C7_Witness ==
    /\ pc = "unpacked"
    /\ u.cube
    /\ FrameCount(u.frames) = 2
    /\ u.nb_frames = 12
    /\ Len(orig) = 6 * UnpackBase
    /\ Len(dds.payload) = Len(orig)

\* The payload is larger than expected, and not 6 times as large.
LargerNotSixfold == u.texture_size > UnpackBase /\ u.texture_size /= 6 * UnpackBase

\* C8 as stated: on unpack, a payload that is larger than expected with a
\* ratio that is not exactly 6 (another integer factor, or no integer multiple
\* at all) fails with a size-mismatch error and no DDS file is written.
C8_Original ==
    (UnpackCompared /\ LargerNotSixfold) =>
        /\ pc = "failed" /\ err = "factor"
        /\ ~dds.exists

\* C8: on unpack, a payload that is an integer multiple of the expected size
\* with a factor other than 1 and 6 fails with a size-mismatch error and no DDS
\* file is written; a larger payload that is no integer multiple of the
\* expected size raises a warning only, and the whole payload is then taken
\* for the texture.
C8_SizeMismatch ==
    /\ (UnpackCompared /\ LargerNotSixfold /\ u.texture_size % UnpackBase = 0) =>
           /\ pc = "failed" /\ err = "factor" /\ r = -1
           /\ ~dds.exists
    /\ (UnpackCompared /\ LargerNotSixfold /\ u.texture_size % UnpackBase /= 0) =>
           /\ err /= "factor"
           /\ u.warning
           /\ ~u.cube
           /\ u.expected_texture_size = u.texture_size

\* A payload of 5 times the expected size has been rejected.
C8_Witness ==
    /\ pc = "failed" /\ err = "factor"
    /\ u.texture_size = 5 * UnpackBase
    /\ ~dds.exists

\* C9: on both paths, when the payload (archive entry on unpack, DDS payload on
\* pack) is smaller than the expected size the run fails with a result other
\* than 0, the payload is left as it was read and no payload byte is written.
C9_ShortPayload ==
    /\ (UnpackCompared /\ u.texture_size < UnpackBase) =>
           /\ pc = "failed" /\ r /= 0
           /\ buf = orig
           /\ ~dds.exists /\ dds.payload = <<>>
    /\ (PackCompared /\ Len(dds.payload) < PackBase) =>
           /\ pc = "failed" /\ r /= 0
           /\ buf = dds.payload
           /\ file = <<>>

\* A swizzled entry that lacks one byte has been rejected on unpack.
C9_Witness ==
    /\ pc = "failed" /\ err = "smaller"
    /\ u.swizzled
    /\ u.texture_size = UnpackBase - 1
    /\ buf = orig

-----------------------------------------------------------------------------
(* Unpack followed by pack *)

\* The pack path runs on the DDS file and JSON entry the unpack path wrote.
Repacking == u.expected_texture_size > 0 /\ pk /= NoLocals

\* C3: for every platform and every type both paths accept, with one frame and
\* the same width, height, mip count and flip setting, the payload pack writes
\* equals the payload unpack read.
C3_PackReversesUnpack ==
    (pc = "packed" /\ Repacking /\ FrameCount(u.frames) = 1 /\ ~u.cube /\ ~u.warning) =>
        file = orig

\* C10: every DDS header the unpack path writes is accepted by the pixel-format
\* validation of the pack path, and pack recovers the width, height and mip
\* count from it.
C10_WrapUnwrap ==
    Repacking =>
        /\ err \notin {"not ARGB", "not RGB", "not supported"}
        /\ pk.width = u.width /\ pk.height = u.height
        /\ pk.mipmaps = u.mipmaps

-----------------------------------------------------------------------------
(* The DDS files the pack path accepts *)

\* The four-character codes of the formats of the catalog and of the headers
\* write_dds_header fills in.
RecognisedFourCC ==
    {dds_pixelformat(f, x).pf.fourCC : f \in 0..DDS_FORMAT_ARGB32, x \in BOOLEAN} \ {""}

\* A pixel format is RGBA with a supported bit count, RGB with 24 bits and the
\* masks R = 0x00ff0000, G = 0x0000ff00, B = 0x000000ff, A = 0, or FourCC with
\* a recognised four-character code.
SupportedPixelFormat(pf) ==
    LET sel == BitAnd(pf.flags, 69) IN
    \/ sel = 65 /\ pf.RGBBitCount \in {16, 32, 64, 128}
    \/ /\ sel = 64 /\ pf.RGBBitCount = 24
       /\ pf.RBitMask = "00ff0000" /\ pf.GBitMask = "0000ff00"
       /\ pf.BBitMask = "000000ff" /\ pf.ABitMask = "00000000"
    \/ sel = 4 /\ pf.fourCC \in RecognisedFourCC

\* The steps of the pack path that follow the validation of the pixel format.
PackValidated == {"p_flip", "p_morton", "p_rgba", "p_frames", "packed"}

\* C11: the pack path rejects, with a result other than 0, every DDS file
\* whose magic is not 'DDS ' or whose pixel format is not RGBA with a supported
\* bit count, RGB with 24 bits and the canonical masks, or FourCC with a
\* recognised four-character code: no such file gets past the validation, and
\* an unrecognised FourCC is never packed as the format the JSON type implies.
C11_DDSParseValidation ==
    (dds.exists /\ pc \in PackValidated) =>
        /\ dds.magic = DDS_MAGIC
        /\ SupportedPixelFormat(dds.header.ddspf)

\* The unpack path has written the headers of a DDS file.
UnpackWrote == u /= NoLocals /\ dds.exists /\ err /= "header"

\* The number of bytes the unpack path wrote before the payload: the magic,
\* the header and, when one was written, the DX10 header.
HeaderBytes == 4 + 124 + (IF dds.dx10.present THEN 20 ELSE 0)

\* C12: the pack path takes the payload to start 128 bytes into the DDS file,
\* or 148 bytes exactly when the FourCC of the pixel format is 'DX10'; for
\* every DDS file the unpack path writes this offset is the number of header
\* bytes written before the payload, so that pack reads back the payload
\* unpack wrote.
C12_PayloadOffset ==
    /\ pc = "p_entry" =>
           pk.texture_size
               = dds_file_size(dds)
                 - (IF dds.header.ddspf.fourCC = "DX10" THEN 148 ELSE 128)
    /\ UnpackWrote =>
           (IF dds.header.ddspf.fourCC = "DX10" THEN 148 ELSE 128) = HeaderBytes
    /\ (pc = "p_entry" /\ Repacking) =>
           /\ buf = dds.payload
           /\ pk.texture_size = Len(dds.payload)

\* The pack path has read the payload of a BC7 file the unpack path wrote with
\* a DX10 header.
C12_Witness ==
    /\ pc = "p_entry" /\ Repacking
    /\ u.texture_format = DDS_FORMAT_BC7
    /\ dds.dx10.present
    /\ HeaderBytes = 148
    /\ buf = dds.payload /\ Len(buf) = 16

-----------------------------------------------------------------------------
(* The headers write_dds_header emits *)

\* write_dds_header has returned 1 without a failed assertion: the header,
\* and the DX10 header if any, have been emitted.
HeaderEmitted == pc = "h_done" /\ res.r = 1 /\ ~res.assert

\* The block-compressed formats beyond DXT1/3/5.
BeyondDXT ==
    {DDS_FORMAT_BC4, DDS_FORMAT_BC5, DDS_FORMAT_BC6H, DDS_FORMAT_BC7, DDS_FORMAT_DX10}

\* The texture is a texture array: the frame bits of flags[1] are not 0.
IsArray == fn.flags.frames.lo /= 0 \/ fn.flags.frames.hi /= 0

C14_HeaderInvariants ==
    (pc = "h_done" /\ res.wrote) =>
        /\ res.header.size = 124
        /\ res.header.ddspf.size = 32
        /\ BitAnd(res.header.flags, 4103) = 4103
        /\ BitAnd(res.header.flags, 131072) /= 0 <=> fn.mipmaps /= 0
        /\ res.header.mipMapCount = fn.mipmaps
        /\ BitAnd(res.header.caps, 4194312) = 4194312 <=> fn.mipmaps /= 0
        /\ res.dx10.present =>
               /\ res.dx10.resourceDimension = 3
               /\ res.dx10.arraySize = FrameCount(fn.flags.frames)
               /\ BitAnd(res.dx10.miscFlag, 4) /= 0 <=> fn.flags.cube

\* A BC7 cubemap array of 16 frames with 3 levels has its header and DX10
\* header.
C14_Witness ==
    /\ pc = "h_done" /\ res.wrote
    /\ fn.format = DDS_FORMAT_BC7 /\ fn.mipmaps = 3 /\ fn.flags.cube
    /\ fn.flags.frames = [lo |-> 0, hi |-> 1]
    /\ res.header.flags = 659463
    /\ res.dx10.present /\ res.dx10.arraySize = 16 /\ res.dx10.miscFlag = 4

-----------------------------------------------------------------------------
(* The format catalog *)

\* The texture formats the catalog defines: the formats with a block size in
\* bytes and a pixel size in bits.
DefinedFormats ==
    {f \in DDS_FORMAT_UNKNOWN..DDS_FORMAT_ARGB32 : dds_bpb(f) > 0 /\ dds_bpp(f) > 0}

\* C15: dds_bwh, dds_bpb and dds_bpp each return a value for every defined
\* texture format, and each fails, with no default value returned silently,
\* for every format identifier outside the defined set.
C15_CatalogTotality ==
    pc = "c_done" =>
        /\ fn.format \in DefinedFormats => (~res.assert /\ res.value > 0)
        /\ fn.format \notin DefinedFormats => res.assert

\* C16 as stated: for every supported format f,
\* bytes_per_block(f) * block_w(f) * block_h(f) * 8 equals
\* bits_per_pixel(f) * block_w(f) * block_h(f), and the size of level 0 is
\* ceil(width / block_w) * ceil(height / block_h) * bytes_per_block(f).
C16_Original ==
    (pc = "s_done" /\ fn.level = 0) =>
        /\ dds_bpb(fn.format) * dds_bwh(fn.format) * dds_bwh(fn.format) * 8
               = dds_bpp(fn.format) * dds_bwh(fn.format) * dds_bwh(fn.format)
        /\ res = CeilDiv(fn.w, dds_bwh(fn.format)) * CeilDiv(fn.h, dds_bwh(fn.format))
                 * dds_bpb(fn.format)

\* C16 as amended: for every supported format f, bytes_per_block(f) * 8 equals
\* bits_per_pixel(f) * block_w(f) * block_h(f) (a block holds block_w * block_h
\* pixels), and the size of level 0 is
\* ceil(width / block_w) * ceil(height / block_h) * bytes_per_block(f) for every
\* width and height >= 1.
C16_CatalogConsistency ==
    (pc = "s_done" /\ fn.level = 0) =>
        /\ dds_bpb(fn.format) * 8
               = dds_bpp(fn.format) * dds_bwh(fn.format) * dds_bwh(fn.format)
        /\ res = CeilDiv(fn.w, dds_bwh(fn.format)) * CeilDiv(fn.h, dds_bwh(fn.format))
                 * dds_bpb(fn.format)

\* Level 0 of a 9x5 DXT1 texture: 3 x 2 blocks of 8 bytes, 64 bits for the 16
\* pixels of a block.
C16_Witness ==
    /\ pc = "s_done" /\ fn.level = 0
    /\ fn.format = DDS_FORMAT_DXT1 /\ fn.w = 9 /\ fn.h = 5
    /\ res = 48
    /\ dds_bpb(fn.format) * 8 = 64
    /\ dds_bpp(fn.format) * dds_bwh(fn.format) * dds_bwh(fn.format) = 64

-----------------------------------------------------------------------------
(* The layout mortonize produces *)

\* The low k bits of a at the even bit positions 0, 2, ... and the low k bits
\* of c at the odd bit positions 1, 3, ...
RECURSIVE Interleave(_, _, _)
Interleave(a, c, k) ==
    IF k = 0 THEN 0
    ELSE (a % 2) + 2 * (c % 2) + 4 * Interleave(a \div 2, c \div 2, k - 1)

\* The row-major index of the 2^k x 2^k tile that contains (x, y), tiles
\* counted across the width first.
TileIndex(x, y) == (y \div Pow2(fn.k)) * (fn.ew \div Pow2(fn.k)) + (x \div Pow2(fn.k))

\* Element i of the buffer b.
Element(b, i) == SubSeq(b, i * MortonElemBytes(fn) + 1, (i + 1) * MortonElemBytes(fn))

\* The positions of the raster.
Raster == (0..(fn.ew - 1)) \X (0..(fn.eh - 1))

\* C17 as stated: in the forward transform with order k the element at raster
\* position (x, y) is stored at index T * 4^k + Z, with T the row-major index of
\* the tile of (x, y) and Z the interleaving of the low k bits with the bits
\* of x at the even positions and the bits of y at the odd positions; a
\* negative order applies the mapping in reverse.
C17_Original ==
    pc = "m_mid" =>
        \A p \in Raster :
            LET i == p[2] * fn.ew + p[1]
                j == TileIndex(p[1], p[2]) * Pow2(2 * fn.k) + Interleave(p[1], p[2], fn.k)
            IN  IF fn.first = "fwd" THEN Element(mid, j) = Element(orig, i)
                ELSE Element(mid, i) = Element(orig, j)

\* C17 as amended: in the forward transform with order k the element at
\* raster position (x, y) is stored at index T * 4^k + Z, with T the row-major
\* index of the 2^k x 2^k tile of (x, y) and Z the interleaving of the low k
\* bits with the bits of y at the even positions and the bits of x at the odd
\* positions; a negative order applies the inverse mapping: the element at
\* index T * 4^k + Z is stored at raster position (x, y).
C17_MortonLayout ==
    pc = "m_mid" =>
        \A p \in Raster :
            LET i == p[2] * fn.ew + p[1]
                j == TileIndex(p[1], p[2]) * Pow2(2 * fn.k) + Interleave(p[2], p[1], fn.k)
            IN  IF fn.first = "fwd" THEN Element(mid, j) = Element(orig, i)
                ELSE Element(mid, i) = Element(orig, j)

\* An 8x4 raster of bytes after the forward transform of order 2: the element
\* of (1, 0) is at index 2 and the element of (0, 1) at index 1; the element of
\* (5, 2), in the second tile, is at index 16 + 6.
C17_Witness ==
    /\ pc = "m_mid" /\ fn.first = "fwd"
    /\ fn.format = DDS_FORMAT_R8 /\ fn.wf = 1 /\ fn.k = 2 /\ fn.ew = 8 /\ fn.eh = 4
    /\ mid[2 + 1] = orig[1 + 1]
    /\ mid[1 + 1] = orig[8 + 1]
    /\ mid[22 + 1] = orig[21 + 1]
    /\ orig[1 + 1] /= orig[8 + 1]

-----------------------------------------------------------------------------
(* The Morton transform of the mipmap levels *)

\* Level j of a texture in the buffer b: the MIPMAP_SIZE bytes that follow
\* the levels 0..j-1.
Level(b, f, j, w, h) == SubSeq(b, LevelSum(f, j, w, h) + 1, LevelSum(f, j + 1, w, h))

\* Level j of b, with dimensions halved j times, transformed with the order o.
LevelMorton(b, f, j, w, h, o, wf) ==
    mortonize(f, o, w \div Pow2(j), h \div Pow2(j), Level(b, f, j, w, h),
              MIPMAP_SIZE(f, j, w, h), wf).buf

\* after is before with level j transformed with the order magnitude m - j,
\* of the sign of mo, for every j < min(M, m), and every other byte as it was.
Scheduled(before, after, f, w, h, M, mo, wf) ==
    /\ Len(after) = Len(before)
    /\ \A j \in 0..(M - 1) :
           Level(after, f, j, w, h)
               = IF j < abs(mo)
                 THEN LevelMorton(before, f, j, w, h,
                                  IF mo > 0 THEN abs(mo) - j ELSE j - abs(mo), wf)
                 ELSE Level(before, f, j, w, h)
    /\ \A p \in (LevelSum(f, M, w, h) + 1)..Len(before) : after[p] = before[p]

\* The Morton step of the unpack path, and of the pack path, has completed.
UnpackMortonDone == pc = "u_morton" /\ pc' = "u_flip" /\ u.swizzled
PackMortonDone == pc = "p_morton" /\ pc' = "p_rgba" /\ pk.swizzled

\* C18: for a swizzled texture with initial order magnitude m and M mip
\* levels, the Morton step of either path transforms level j, at its own
\* offset and with dimensions halved j times, with order magnitude m - j for
\* every j < min(M, m), and leaves every level j >= m byte for byte as it was.
C18_MortonSchedule ==
    [][/\ UnpackMortonDone =>
            \E m \in {morton_params(-1, g1t.platform, u.texture_format, u.width,
                                    u.height)} :
                Scheduled(buf, buf', u.texture_format, u.width, u.height, u.mipmaps,
                          m.mo, m.wf)
       /\ PackMortonDone =>
            \E m \in {morton_params(1, g1t.platform, pk.texture_format, pk.width,
                                    pk.height)} :
                Scheduled(buf, buf', pk.texture_format, pk.width, pk.height, pk.mipmaps,
                          m.mo, m.wf)]_vars

\* An 8x8 DXT1 texture of type 0x10 with 2 levels has been through the Morton
\* step of the unpack path: 2x2 blocks, so order 1 for level 0, and level 1 as
\* it was.
C18_Witness ==
    /\ pc = "u_flip" /\ u.swizzled
    /\ g1t.platform = SONY_PS3
    /\ u.texture_format = DDS_FORMAT_DXT1
    /\ u.width = 8 /\ u.height = 8 /\ u.mipmaps = 2
    /\ Level(buf, u.texture_format, 0, 8, 8) /= Level(orig, u.texture_format, 0, 8, 8)
    /\ Level(buf, u.texture_format, 0, 8, 8)
           = LevelMorton(orig, u.texture_format, 0, 8, 8, -1, 1)
    /\ Level(buf, u.texture_format, 1, 8, 8) = Level(orig, u.texture_format, 1, 8, 8)

-----------------------------------------------------------------------------
(* The assertions of mortonize *)

\* A precondition of mortonize is violated: the width or the height, in
\* elements, is no multiple of 2^k, k exceeds log2(min(width, height)), or the
\* size of the buffer is not element_bytes * width * height.
PreconditionViolated ==
    \/ fn.ew % Pow2(fn.k) /= 0
    \/ fn.eh % Pow2(fn.k) /= 0
    \/ Pow2(fn.k) > min(fn.ew, fn.eh)
    \/ Len(orig) /= MortonElemBytes(fn) * fn.ew * fn.eh

C20_CallersMeetContract ==
    ~(pc = "abort" /\ err \in {"mortonize", "order", "log2"})

-----------------------------------------------------------------------------
(* The callers of flip *)

\* C21: whenever either path invokes flip (with -f, or on the 3DS for the
\* types 0x09 and 0x45), the bits per pixel passed are a multiple of 8 and
\* the payload length passed is a multiple of the line size, for every format
\* of the type table and every mip count: no run ends in flip with a failed
\* assertion.
C21_FlipContract ==
    ~(pc = "abort" /\ err = "flip")

-----------------------------------------------------------------------------
(* The mip count behind the expected size *)

\* The pack path has computed expected_texture_size.
PackSized == pk /= NoLocals /\ pc \in {"p_validate"} \cup PackValidated

\* C22: neither path computes the expected payload size with a mip count of
\* 0: unpack rejects a stored count of 0, and pack resolves the count from the
\* JSON metadata or the DDS header to a value >= 1 before it sums the level
\* sizes and writes the payload.
C22_MipCountResolved ==
    /\ (u /= NoLocals /\ pc \in {"u_size", "u_reconcile"}) => u.mipmaps >= 1
    /\ PackSized => pk.mipmaps >= 1

-----------------------------------------------------------------------------
(* The order of frames and levels in the archive and in the DDS file *)

\* Where level l of frame f starts in the level-major payload of an archive
\* entry, and in the frame-major payload of a DDS file, for F frames of M
\* levels each.
LevelMajorAt(fmt, w, h, F, l, f) ==
    F * LevelSum(fmt, l, w, h) + f * MIPMAP_SIZE(fmt, l, w, h)

FrameMajorAt(fmt, w, h, M, l, f) ==
    f * LevelSum(fmt, M, w, h) + LevelSum(fmt, l, w, h)

\* a, read frame-major, holds the levels that b holds level-major.
Reordered(a, b, fmt, w, h, M, F) ==
    /\ Len(a) = F * LevelSum(fmt, M, w, h)
    /\ \A f \in 0..(F - 1), l \in 0..(M - 1) :
          Slice(a, FrameMajorAt(fmt, w, h, M, l, f), MIPMAP_SIZE(fmt, l, w, h))
              = Slice(b, LevelMajorAt(fmt, w, h, F, l, f), MIPMAP_SIZE(fmt, l, w, h))

\* The payload handed to the frame loop of the pack path holds exactly
\* pk.mipmaps levels for each frame.
PackExact ==
    Len(buf) = pk.nb_frames * LevelSum(pk.texture_format, pk.mipmaps, pk.width, pk.height)

\* C23: for every frame count F >= 1 (times 6 for cubemaps) and mip count
\* M >= 1, unpack reads the level-major layout of the archive and writes the
\* levels frame-major, pack performs the opposite reordering on a DDS payload
\* of exactly M levels per frame, and either loop applied to the output of the
\* other gives back the same F * (sum of the level sizes) bytes.
C23_FrameReordering ==
    /\ (pc = "unpacked" /\ u.mipmaps >= 1) =>
          /\ Reordered(dds.payload, buf, u.texture_format, u.width, u.height,
                       u.mipmaps, u.nb_frames)
          /\ pack_frames(dds.payload, u.texture_format, u.width, u.height, u.mipmaps,
                         u.nb_frames, Len(dds.payload) \div u.nb_frames, 0, 0)
                 = Slice(buf, 0, Len(dds.payload))
    /\ (pc = "packed" /\ pk.mipmaps >= 1 /\ PackExact) =>
          /\ Reordered(buf, file, pk.texture_format, pk.width, pk.height,
                       pk.mipmaps, pk.nb_frames)
          /\ unpack_frames(file, pk.texture_format, pk.width, pk.height, pk.mipmaps,
                           pk.nb_frames, 0) = buf

\* An archive entry of 2 or more frames with 2 levels has been extracted and
\* packed again, and the frame loop of the pack path moved bytes.
C23_Witness ==
    /\ pc = "packed" /\ Repacking /\ PackExact
    /\ pk.nb_frames >= 2 /\ pk.mipmaps = 2
    /\ file /= buf
    /\ Len(file) = pk.nb_frames * LevelSum(pk.texture_format, 2, pk.width, pk.height)

\* The pack path keeps fewer levels than each frame of the DDS payload holds.
PackTruncates ==
    /\ pk.mipmaps >= 1 /\ pk.mipmaps < dds.header.mipMapCount
    /\ Len(buf) = pk.nb_frames * LevelSum(pk.texture_format, dds.header.mipMapCount,
                                          pk.width, pk.height)

\* C24: when pack keeps fewer mip levels than the DDS file contains, for a
\* texture with more than one frame or a cubemap, the levels written for frame
\* f are read from the levels of frame f in the DDS payload, for every f.
C24_TruncationKeepsFrames ==
    (pc = "packed" /\ PackTruncates /\ pk.nb_frames > 1) =>
        \A f \in 0..(pk.nb_frames - 1), l \in 0..(pk.mipmaps - 1) :
            Slice(file, LevelMajorAt(pk.texture_format, pk.width, pk.height,
                                     pk.nb_frames, l, f),
                  MIPMAP_SIZE(pk.texture_format, l, pk.width, pk.height))
                = Slice(buf, FrameMajorAt(pk.texture_format, pk.width, pk.height,
                                          dds.header.mipMapCount, l, f),
                        MIPMAP_SIZE(pk.texture_format, l, pk.width, pk.height))

-----------------------------------------------------------------------------
(* Width and height through the entry header *)

\* C25: for every DDS width and height that pack accepts (powers of two, or
\* any size with the extended-data flag, including a width that is a power of
\* two with a height that is not), the texture entry pack writes yields, read
\* by unpack, the width and height of the DDS file.
C25_DimensionRoundTrip ==
    entry.exists =>
        unpack_dims(entry) = [width |-> dds.header.width, height |-> dds.header.height]

-----------------------------------------------------------------------------
(* The loops of main_utf8 over the textures of an archive *)

MaxTextures == 3

\* How the loop body ends for one texture: at its closing brace (or, when
\* listing, at the continue), at a break, at a goto out, or in a failed
\* assertion.  The pack loop has no break out of the loop, and a listing calls
\* no transform.
BodyExits(mode) ==
    CASE mode = "pack" -> {"done", "goto out", "assert"}
      [] mode = "unpack" -> {"done", "break", "goto out", "assert"}
      [] mode = "list" -> {"done", "break", "goto out"}

\* r = (i == hdr->nb_textures) ? 0 : -1, always the result of a complete run.
unpack_result_zero(i, nb_textures) == 0

\* r = (i == hdr->nb_textures) ? 0 : -1.
unpack_result(i, nb_textures) == IF i = nb_textures THEN 0 ELSE -1

\* A run over nb_textures textures; body[k] is the exit of the loop body for
\* texture k - 1 and tables tells whether the final writes of the pack path
\* succeed.  res is the loop index i, mid the indices processed so far.
RunInit ==
    /\ pc = "run"
    /\ \E mode \in {"pack", "unpack", "list"}, n \in 0..MaxTextures :
         \E body \in [1..n -> BodyExits(mode)], tables \in BOOLEAN :
            /\ mode /= "pack" => tables
            /\ fn = [mode |-> mode, nb_textures |-> n, body |-> body \o <<>>,
                     tables |-> tables]
    /\ mid = <<>>
    /\ res = 0
    /\ buf = <<>>
    /\ orig = <<>>
    /\ PipeIdle

\* One turn of the pack loop.
RunPackTexture ==
    /\ pc = "run" /\ fn.mode = "pack" /\ res < fn.nb_textures
    /\ IF fn.body[res + 1] = "done"
       THEN mid' = Append(mid, res) /\ res' = res + 1 /\ UNCHANGED pc
       ELSE /\ pc' = IF fn.body[res + 1] = "assert" THEN "abort" ELSE "out"
            /\ UNCHANGED <<mid, res>>
    /\ UNCHANGED <<fn, buf, orig>>
    /\ UNCHANGED pipevars

\* After the pack loop: total size, flag and offset tables, then r = 0.
RunPackTables ==
    /\ pc = "run" /\ fn.mode = "pack" /\ res = fn.nb_textures
    /\ pc' = "out"
    /\ r' = IF fn.tables THEN 0 ELSE r
    /\ UNCHANGED <<fn, mid, res, buf, orig, opt, g1t, u, json, dds, pk, entry, file, err>>

\* One turn of the unpack loop.
RunUnpackTexture ==
    /\ pc = "run" /\ fn.mode \in {"unpack", "list"} /\ res < fn.nb_textures
    /\ IF fn.body[res + 1] = "done"
       THEN mid' = Append(mid, res) /\ res' = res + 1 /\ UNCHANGED pc
       ELSE /\ pc' = CASE fn.body[res + 1] = "assert" -> "abort"
                       [] fn.body[res + 1] = "break" -> "after"
                       [] OTHER -> "out"
            /\ UNCHANGED <<mid, res>>
    /\ UNCHANGED <<fn, buf, orig>>
    /\ UNCHANGED pipevars

\* After the unpack loop, whether it ran to its end or was left by a break.
RunUnpackResult ==
    /\ fn.mode \in {"unpack", "list"}
    /\ pc = "after" \/ (pc = "run" /\ res = fn.nb_textures)
    /\ pc' = "out"
    /\ r' = unpack_result(res, fn.nb_textures)
    /\ UNCHANGED <<fn, mid, res, buf, orig, opt, g1t, u, json, dds, pk, entry, file, err>>

RunNext == RunPackTexture \/ RunPackTables \/ RunUnpackTexture \/ RunUnpackResult

SpecRun == RunInit /\ [][RunNext]_vars

\* The textures whose loop body does not run to its end.
Failing == {k \in 0..(fn.nb_textures - 1) : fn.body[k + 1] /= "done"}

\* C26: in both modes the textures are processed in index order 0..n-1; when
\* a texture fails, no texture with a higher index is processed or written
\* and the result of the run is not 0; the result is 0 only if all n textures
\* were processed without error.
C26_SequentialProcessing ==
    /\ mid = [k \in 1..Len(mid) |-> k - 1]
    /\ \A k \in Failing : \A j \in 1..Len(mid) : mid[j] < k
    /\ (pc = "out" /\ Failing /= {}) => r /= 0
    /\ r = 0 => (pc = "out" /\ Failing = {} /\ Len(mid) = fn.nb_textures)

\* A run over three textures has ended at the second one: the first is the
\* only one processed and the result is -1.
C26_Witness ==
    /\ pc = "out" /\ fn.mode = "unpack" /\ fn.nb_textures = 3
    /\ fn.body = <<"done", "break", "done">>
    /\ mid = <<0>>
    /\ r = -1

-----------------------------------------------------------------------------
(* The DXGI format of the DX10 header *)

\* C27: whenever write_dds_header emits a DX10 header (format BC7 or DX10, or
\* any format with frame-count bits set), the format is one the DXGI switch
\* handles: the default branch with assert(false) is not reached and the
\* dxgiFormat written is not DXGI_FORMAT_UNKNOWN, for every platform default
\* format and every texture type.
C27_DxgiFormatDefined ==
    (u /= NoLocals /\ dds.exists /\ pk = NoLocals
     /\ u.texture_format \in CatalogFormats
     /\ use_dx10(u.texture_format, header_flags(g1t, u))) =>
        /\ ~(pc = "abort" /\ err = "header")
        /\ dds.dx10.present /\ dds.dx10.dxgiFormat /= "UNKNOWN"

-----------------------------------------------------------------------------
(* mortonize as a permutation of the elements *)

\* The destination indices the copy loop of the first call computed.
Destinations ==
    {morton_index(i, fn.ew, fn.k, fn.first = "rev") : i \in 0..(fn.ew * fn.eh - 1)}

\* C28: under the preconditions of mortonize, in both directions the
\* destination index j of every source index i is below num_elements and
\* distinct i have distinct j: every element of the scratch buffer is written
\* exactly once, and the output holds exactly the input elements, none lost,
\* duplicated or left uninitialised.
C28_MortonPermutation ==
    pc = "m_mid" =>
        /\ Destinations = 0..(fn.ew * fn.eh - 1)
        /\ Len(buf) = Len(orig)
        /\ \A i \in 0..(fn.ew * fn.eh - 1) :
              Element(buf, morton_index(i, fn.ew, fn.k, fn.first = "rev"))
                  = Element(orig, i)

\* A reverse transform of order 2 on 8x4 elements has moved elements.
C28_Witness ==
    /\ pc = "m_mid" /\ fn.first = "rev" /\ fn.k = 2 /\ fn.ew = 8 /\ fn.eh = 4
    /\ buf /= orig
    /\ Cardinality(Destinations) = 32

-----------------------------------------------------------------------------
(* The byte ranges of the archive buffer the unpack loop reads *)

MaxEntries == 2

\* Sizes of archive files, and values of the offset table: the offsets of
\* well-formed archives of these sizes, and others, beyond the end of the file
\* or not increasing.
ArchiveSizes == {56, 84}
ArchiveOffsets == {4, 8, 32, 200}

\* An archive of g1t_size bytes whose header gives header_size and
\* nb_textures, with its offset table.  res holds the loop index and the
\* locals of the turn, mid the ranges [lo, hi) of buf read so far.
ArchiveInit ==
    /\ pc = "a_entry"
    /\ \E s \in ArchiveSizes, n \in 1..MaxEntries : \E o \in [1..n -> ArchiveOffsets] :
          fn = [g1t_size |-> s, header_size |-> 28, nb_textures |-> n,
                x_offset_table |-> o \o <<>>]
    /\ res = [i |-> 0, pos |-> 0, ext |-> FALSE, data_size |-> 0,
              expected_texture_size |-> 0, texture_size |-> 0]
    /\ mid = <<>>
    /\ buf = <<>>
    /\ orig = <<>>
    /\ PipeIdle

\* pos, the entry header at pos, and the extended data behind it.  What the
\* bytes hold is an input: the flag, the size of the extended data, whether
\* mip count, global flags and type pass, and the size the header implies.
ArchiveEntry ==
    /\ pc = "a_entry"
    /\ \E ext \in BOOLEAN, size \in {0, 8, 12, 20}, valid \in BOOLEAN :
         LET pos == fn.header_size + fn.x_offset_table[res.i + 1]
             data_size == IF ext THEN size ELSE 0
             tex == <<[lo |-> pos, hi |-> pos + 8]>>
             word == IF ext THEN <<[lo |-> pos + 8, hi |-> pos + 12]>> ELSE <<>>
             data == IF data_size >= 12
                     THEN <<[lo |-> pos + 12, hi |-> pos + 8 + data_size]>> ELSE <<>>
         IN  IF ~valid
             THEN Fail("entry") /\ mid' = mid \o tex /\ UNCHANGED res
             ELSE IF data_size \notin {0, 12, 16, 20}
             THEN Fail("extra flags size") /\ mid' = mid \o tex \o word /\ UNCHANGED res
             ELSE /\ mid' = mid \o tex \o word \o data
                  /\ res' = [res EXCEPT !.pos = pos + 8, !.ext = ext,
                                        !.data_size = data_size,
                                        !.expected_texture_size = 16]
                  /\ pc' = "a_size"
                  /\ UNCHANGED <<err, r>>
    /\ UNCHANGED <<fn, buf, orig, opt, g1t, u, json, dds, pk, entry, file>>

\* texture_size from the offset table, in uint32_t arithmetic: a negative
\* number d stands for the value 2^32 + d.
ArchiveSize ==
    /\ pc = "a_size"
    /\ LET next == IF res.i + 1 = fn.nb_textures THEN fn.g1t_size - fn.header_size
                   ELSE fn.x_offset_table[res.i + 2]
           texture_size == next - fn.x_offset_table[res.i + 1] - 8
       IN  IF ~res.ext
           THEN /\ res' = [res EXCEPT !.texture_size = texture_size]
                /\ pc' = "a_payload"
                /\ UNCHANGED <<err, r>>
           ELSE IF ~(res.pos + res.data_size < fn.g1t_size)
           THEN Abort("extended data") /\ UNCHANGED res
           ELSE IF res.data_size \notin {12, 16, 20}
           THEN Fail("extra_data") /\ UNCHANGED res
           ELSE /\ res' = [res EXCEPT !.pos = res.pos + res.data_size,
                                      !.texture_size = texture_size - res.data_size]
                /\ pc' = "a_payload"
                /\ UNCHANGED <<err, r>>
    /\ UNCHANGED <<fn, mid, buf, orig, opt, g1t, u, json, dds, pk, entry, file>>

\* The comparison with the expected size, and the frame loop over the
\* payload at pos.
ArchivePayload ==
    /\ pc = "a_payload"
    /\ LET t == res.texture_size
           e == res.expected_texture_size
           rem == IF t >= 0 THEN t % e
                  ELSE ((((65536 % e) * (65536 % e)) % e) + e - ((0 - t) % e)) % e
           cube == t >= 0 /\ t \div e = 6
       IN  IF t >= 0 /\ t < e
           THEN Fail("smaller") /\ UNCHANGED <<res, mid>>
           ELSE IF t /= e /\ rem = 0 /\ ~cube
           THEN Fail("factor") /\ UNCHANGED <<res, mid>>
           ELSE /\ mid' = Append(mid, [lo |-> res.pos,
                                       hi |-> res.pos + (IF t /= e /\ rem = 0 THEN 6 ELSE 1) * e])
                /\ res' = [res EXCEPT !.i = res.i + 1]
                /\ IF res.i + 1 = fn.nb_textures
                   THEN pc' = "a_out" /\ r' = unpack_result(res.i + 1, fn.nb_textures)
                   ELSE pc' = "a_entry" /\ UNCHANGED r
                /\ UNCHANGED err
    /\ UNCHANGED <<fn, buf, orig, opt, g1t, u, json, dds, pk, entry, file>>

ArchiveNext == ArchiveEntry \/ ArchiveSize \/ ArchivePayload

SpecArchive == ArchiveInit /\ [][ArchiveNext]_vars

\* C29: for every texture entry and any contents of the header and of the
\* offset table (offsets that are not increasing or point past the end of the
\* file included), every byte range unpack reads, transforms or writes for
\* the entry (entry header, extended data, payload) lies within [0, g1t_size).
C29_InsideArchive ==
    \A k \in 1..Len(mid) : mid[k].lo >= 0 /\ mid[k].hi <= fn.g1t_size

-----------------------------------------------------------------------------
(* The frame count through the extended flags word *)

\* C30: for every frame count n in 0..255 the bits pack stores in the
\* extended flags word lie inside G1T_FLAG_TEXTURE_ARRAY and GET_NB_FRAMES of
\* that word is n; and for every flags word unpack reads, the frame-count
\* bits pack writes back from the extracted metadata are the original bits,
\* a stored frame count of exactly 1 included.
C30_FrameCountRoundTrip ==
    (Repacking /\ entry.exists /\ u.data_size >= 12) =>
        /\ \A n \in 0..255 :
              /\ NbFramesBits(n).lo \in 0..15 /\ NbFramesBits(n).hi \in 0..15
              /\ GET_NB_FRAMES(NbFramesBits(n)) = n
        /\ entry.ext
        /\ entry.frames = u.frames

=============================================================================
